---- MODULE Spec2Model ----
(***************************************************************************)
(* Verification model of the workflow execution engine of                  *)
(* tethysext-workflows: the ordered-step state machine of TethysWorkflow,  *)
(* the lock helpers of WorkflowView, the job step's run_job handler and    *)
(* the job graph builder of WorkflowCondorJobManager.                      *)
(*                                                                         *)
(* The state of every variable is the durable state left behind by a       *)
(* handler: each action is one whole handler (or one whole method call),   *)
(* with every write it makes up to its last session.commit().              *)
(***************************************************************************)
EXTENDS Integers, Sequences, FiniteSets, TLC

VARIABLES
    steps,      \* TethysWorkflow.steps: the ordered list of Step rows
    last,       \* the operation that produced this state, its arguments and outcome
    user_lock,  \* the lock holder of each lockable (workflow, resource)
    jobs,       \* WorkflowCondorJobManager.jobs: the declared job descriptors
    dag,        \* the job nodes built by prepare(): node -> set of parent nodes
    built,      \* outcome of prepare(): "new", "prepared" or the exception raised
    done,       \* nodes the scheduler has completed
    executed,   \* ids of the condor workflows handed to the scheduler
    manager,    \* the job manager: whether its jobs are a callback, and the
                \* scheduler records (workflow, job nodes) it has saved
    sessions,   \* the database sessions open on the steps: the one of a user
                \* request and the one of a job reporting back
    resource    \* the committed Status Ledger of the resource the job
                \* executables report to, one status per key

vars == <<steps, last, user_lock, jobs, dag, built, done, executed, manager, sessions, resource>>

(***************************************************************************)
(* Bounds of the model.                                                    *)
(***************************************************************************)
NumSteps == 3          \* steps of the workflow the step views act on
NumResetSteps == 4     \* steps of the workflow whose steps are reset
NumStatusSteps == 3    \* steps of the workflow whose status is derived
MaxJobs == 3           \* job descriptors of one submission
MaxWorkflowSteps == 2  \* steps of a workflow of any length, none included
NumNamedSteps == 3     \* steps of the workflow whose steps are looked up
MaxBuildJobs == 2      \* items of the job list a manager is constructed with
NumRaceSteps == 2      \* steps of the workflow a request and a job both write
NumLockSteps == 2      \* steps of the workflow whose lock options are processed
NumViewSteps == 2      \* steps of the workflow whose step views process input
NumAtomicSteps == 3    \* steps of the workflow whose reset is followed statement by statement
NumWorkingSteps == 2   \* steps of the workflow that ends in a job step
MaxFaultPoint == 3     \* statements of a job executable at which a run can fail
MaxArgJobs == 1        \* job descriptors of a submission whose arguments are built
MaxArgChars == 3       \* characters of the 'arguments' attribute of a descriptor
MaxCustomArgs == 1     \* custom arguments given to the manager
MaxInputFiles == 2     \* input files given to the manager
NumJobViewSteps == 2   \* steps of the workflow that begins with a job step
NumSetStatusSteps == 2 \* set-status steps of the workflow whose statuses are posted

(***************************************************************************)
(* Status Ledger vocabulary of Step, persisted as plain strings.           *)
(***************************************************************************)
STATUS_PENDING == "PENDING"
STATUS_CONTINUE == "CONTINUE"
STATUS_WORKING == "WORKING"
STATUS_COMPLETE == "COMPLETE"
STATUS_FAILED == "FAILED"
STATUS_ERROR == "ERROR"
STATUS_SUBMITTED == "SUBMITTED"
STATUS_UNDER_REVIEW == "UNDER_REVIEW"
STATUS_APPROVED == "APPROVED"
STATUS_REJECTED == "REJECTED"
STATUS_CHANGES_REQUESTED == "CHANGES_REQUESTED"
STATUS_REVIEWED == "REVIEWED"
STATUS_NONE == "NONE"

Statuses ==
    { STATUS_PENDING, STATUS_CONTINUE, STATUS_WORKING, STATUS_COMPLETE,
      STATUS_FAILED, STATUS_ERROR, STATUS_SUBMITTED, STATUS_UNDER_REVIEW,
      STATUS_APPROVED, STATUS_REJECTED, STATUS_CHANGES_REQUESTED,
      STATUS_REVIEWED, STATUS_NONE }

\* The statuses considered complete for sequencing.
COMPLETE_STATUSES == { STATUS_COMPLETE, STATUS_APPROVED, STATUS_REVIEWED }

\* Statuses written by the handlers and jobs of the edited workflow: a step
\* view completing a step, a job step working, a finalize job reporting.
WrittenStatuses == { STATUS_COMPLETE, STATUS_WORKING, STATUS_ERROR }

(***************************************************************************)
(* Step rows.                                                              *)
(***************************************************************************)
ParamInitial == "initial"    \* Step.init_parameters()
ParamEntered == "entered"    \* a value supplied by the user

\* A Step as created when the workflow is instantiated from its template.
NewStep ==
    [ status |-> STATUS_PENDING, parameters |-> ParamInitial, dirty |-> FALSE,
      condor_job_id |-> 0 ]

\* Step.complete
complete(step) == step.status \in COMPLETE_STATUSES

\* Step.reset(): back to the never-visited state.
reset(step) ==
    [ step EXCEPT !.status = STATUS_PENDING, !.parameters = ParamInitial,
                  !.dirty = FALSE ]

\* Step.set_parameter(): stores the value and marks the step dirty.
set_parameter(step, value) == [ step EXCEPT !.parameters = value, !.dirty = TRUE ]

\* StatusMixin.set_status(): overwrite, no history.
set_status(step, value) == [ step EXCEPT !.status = value ]

(***************************************************************************)
(* TethysWorkflow (models/workflow.py).                                    *)
(***************************************************************************)
\* The loop of get_next_step from position k (1-based); idx is the 0-based
\* index the code returns, step is the position of the returned step, 0 for
\* None.
RECURSIVE get_next_step_from(_, _)
get_next_step_from(ss, k) ==
    IF k > Len(ss)
    THEN [ idx |-> IF Len(ss) = 0 THEN 0 ELSE Len(ss) - 1, step |-> Len(ss) ]
    ELSE IF ~complete(ss[k])
         THEN [ idx |-> k - 1, step |-> k ]
         ELSE get_next_step_from(ss, k + 1)

get_next_step(ss) == get_next_step_from(ss, 1)

get_status_index_ge_0(ss) ==
    LET nxt == get_next_step(ss)
        status == IF nxt.step # 0 THEN ss[nxt.step].status ELSE STATUS_NONE
    IN  IF status = STATUS_PENDING /\ nxt.idx >= 0
        THEN STATUS_CONTINUE
        ELSE status

get_status_none_as_pending(ss) ==
    LET nxt == get_next_step(ss)
        status == IF nxt.step # 0 THEN ss[nxt.step].status ELSE STATUS_PENDING
    IN  IF status = STATUS_PENDING /\ nxt.idx > 0
        THEN STATUS_CONTINUE
        ELSE status

\* A variant that reads CONTINUE for a workflow whose next step was edited.
get_status_reading_dirty(ss) ==
    LET nxt == get_next_step(ss)
        status == IF nxt.step # 0 THEN ss[nxt.step].status ELSE STATUS_NONE
    IN  IF status = STATUS_PENDING /\ (nxt.idx > 0 \/ ss[nxt.step].dirty)
        THEN STATUS_CONTINUE
        ELSE status

get_status(ss) ==
    LET nxt == get_next_step(ss)
        status == IF nxt.step # 0 THEN ss[nxt.step].status ELSE STATUS_NONE
    IN  IF status = STATUS_PENDING /\ nxt.idx > 0
        THEN STATUS_CONTINUE
        ELSE status

\* get_next_steps(step): the steps after position i.
get_next_steps(ss, i) == { k \in 1..Len(ss) : k > i }

reset_next_steps_all_later(ss, i, include_current) ==
    [ k \in 1..Len(ss) |->
        IF k \in get_next_steps(ss, i)
        THEN reset(ss[k])
        ELSE IF k = i /\ include_current THEN reset(ss[k]) ELSE ss[k] ]

reset_next_steps_from_current(ss, i, include_current) ==
    [ k \in 1..Len(ss) |->
        IF k >= i /\ ss[k].status # STATUS_PENDING
        THEN reset(ss[k])
        ELSE IF k = i /\ include_current THEN reset(ss[k]) ELSE ss[k] ]

reset_next_steps_first_only(ss, i, include_current) ==
    LET later == { k \in get_next_steps(ss, i) : ss[k].status # STATUS_PENDING }
        first == IF later = {} THEN 0
                 ELSE CHOOSE k \in later : \A j \in later : k <= j
    IN  [ k \in 1..Len(ss) |->
            IF k = first
            THEN reset(ss[k])
            ELSE IF k = i /\ include_current THEN reset(ss[k]) ELSE ss[k] ]

\* reset_next_steps(step, include_current): the step list it leaves.
reset_next_steps(ss, i, include_current) ==
    [ k \in 1..Len(ss) |->
        IF k \in get_next_steps(ss, i) /\ ss[k].status # STATUS_PENDING
        THEN reset(ss[k])
        ELSE IF k = i /\ include_current THEN reset(ss[k]) ELSE ss[k] ]

NoOp == [ op |-> "init", step |-> 0, flag |-> FALSE, out |-> "none" ]

\* No database session is open on the steps.
Idle == [ phase |-> "idle" ]
NoSessions == [ user |-> Idle, job |-> Idle ]

\* The resource's Status Ledger before any job executable has reported.
NewResource == [ k \in { "root", "upload", "upload_gs" } |-> STATUS_NONE ]

\* A job manager given a static list of jobs that has saved no record yet.
NewManager == [ jobs_callback |-> FALSE, workflows_saved |-> 0, nodes_saved |-> 0 ]

(***************************************************************************)
(* Operations on the workflow's steps.                                     *)
(***************************************************************************)
OthersUnchanged == UNCHANGED <<user_lock, jobs, dag, built, done, executed, manager, sessions, resource>>

\* An out-of-band status write (a job reporting back, a step view completing
\* its step): StatusMixin.set_status on the ROOT key, then commit.
SetStatus(i, value) ==
    /\ steps' = [ steps EXCEPT ![i] = set_status(steps[i], value) ]
    /\ last' = [ op |-> "set_status", step |-> 0, flag |-> FALSE, out |-> "none" ]
    /\ OthersUnchanged

\* A user edits the parameters of a step: Step.set_parameter, then commit.
SetParameter(i) ==
    /\ steps' = [ steps EXCEPT ![i] = set_parameter(steps[i], ParamEntered) ]
    /\ last' = [ op |-> "set_parameter", step |-> 0, flag |-> FALSE, out |-> "none" ]
    /\ OthersUnchanged

\* TethysWorkflow.reset_next_steps(step, include_current).
ResetNextSteps(i, include_current) ==
    /\ steps' = reset_next_steps(steps, i, include_current)
    /\ last' = [ op |-> "reset_next_steps", step |-> i, flag |-> include_current,
                 out |-> "none" ]
    /\ OthersUnchanged

\* WorkflowView.process_step_data: the dirty-triggered reset.
process_step_data(ss, i) ==
    IF ss[i].dirty
    THEN [ reset_next_steps(ss, i, FALSE) EXCEPT ![i].dirty = FALSE ]
    ELSE ss

\* WorkflowView.next_or_previous_redirect
next_or_previous_redirect(post) ==
    IF post = "next-submit" THEN "redirect_next" ELSE "redirect_previous"

\* WorkflowView.save_step_data for a request of an actor who has
\* (has_active_role) or lacks the active role of the step.
SaveStepData(i, has_active_role, post) ==
    /\ IF post = "reset-submit"
       THEN /\ steps' = reset_next_steps(steps, i, TRUE)
            /\ last' = [ op |-> "save_step_data", step |-> i,
                         flag |-> has_active_role, out |-> "redirect_current" ]
       ELSE /\ steps' = process_step_data(steps, i)
            /\ last' = [ op |-> "save_step_data", step |-> i,
                         flag |-> has_active_role,
                         out |-> next_or_previous_redirect(post) ]
    /\ OthersUnchanged

PostKeys == { "reset-submit", "next-submit", "previous-submit" }

InitOthers ==
    /\ last = NoOp
    /\ user_lock = [ l \in { "workflow", "resource" } |-> "unlocked" ]
    /\ jobs = << >>
    /\ dag = << >>
    /\ built = "new"
    /\ done = {}
    /\ executed = {}
    /\ manager = NewManager
    /\ sessions = NoSessions
    /\ resource = NewResource

\* The workflow the step views act on: NumSteps steps, all never visited.
Init ==
    /\ steps = [ k \in 1..NumSteps |-> NewStep ]
    /\ InitOthers

Next ==
    \/ \E i \in 1..Len(steps), v \in WrittenStatuses : SetStatus(i, v)
    \/ \E i \in 1..Len(steps) : SetParameter(i)
    \/ \E i \in 1..Len(steps), r \in BOOLEAN, p \in PostKeys : SaveStepData(i, r, p)

Spec == Init /\ [][Next]_vars

\* The workflow whose steps are reset through TethysWorkflow.reset_next_steps.
InitReset ==
    /\ steps = [ k \in 1..NumResetSteps |-> NewStep ]
    /\ InitOthers

NextReset ==
    \/ \E i \in 1..Len(steps), v \in WrittenStatuses : SetStatus(i, v)
    \/ \E i \in 1..Len(steps) : SetParameter(i)
    \/ \E i \in 1..Len(steps), inc \in BOOLEAN : ResetNextSteps(i, inc)

SpecReset == InitReset /\ [][NextReset]_vars

\* The workflow whose status is derived: every ledger value can be written.
InitStatus ==
    /\ steps = [ k \in 1..NumStatusSteps |-> NewStep ]
    /\ InitOthers

NextStatus ==
    \E i \in 1..Len(steps), v \in Statuses : SetStatus(i, v)

SpecStatus == InitStatus /\ [][NextStatus]_vars

\* A workflow instantiated from any template: no step, or up to
\* MaxWorkflowSteps steps, whose statuses are then written.
InitWorkflows ==
    /\ steps \in UNION { [ 1..n -> { NewStep } ] : n \in 0..MaxWorkflowSteps }
    /\ InitOthers

SpecWorkflows == InitWorkflows /\ [][NextStatus]_vars

(***************************************************************************)
(* Lock helpers of WorkflowView (workflow_view.py) over the lock state of  *)
(* UserLockMixin.                                                          *)
(***************************************************************************)
Actors == { "alice", "bob", "admin" }
Lockables == { "workflow", "resource" }
UNLOCKED == "unlocked"
LOCKED_FOR_ALL_USERS == "__locked_for_all_users__"

\* has_permission(request, 'can_override_user_locks')
can_override_user_locks(actor) == actor = "admin"

\* UserLockMixin.acquire_user_lock: request=None asks for a lock for all users.
acquire_user_lock(holder, actor, for_all_users) ==
    IF holder = UNLOCKED
    THEN [ ok |-> TRUE,
           holder |-> IF for_all_users THEN LOCKED_FOR_ALL_USERS ELSE actor ]
    ELSE IF for_all_users
         THEN IF holder = LOCKED_FOR_ALL_USERS
              THEN [ ok |-> TRUE, holder |-> holder ]
              ELSE IF can_override_user_locks(actor)
                   THEN [ ok |-> TRUE, holder |-> LOCKED_FOR_ALL_USERS ]
                   ELSE [ ok |-> FALSE, holder |-> holder ]
         ELSE IF holder = LOCKED_FOR_ALL_USERS
              THEN [ ok |-> can_override_user_locks(actor), holder |-> holder ]
              ELSE [ ok |-> holder = actor, holder |-> holder ]

\* UserLockMixin.release_user_lock
release_user_lock(holder, actor) ==
    IF holder = UNLOCKED
    THEN [ ok |-> TRUE, holder |-> holder ]
    ELSE IF holder = LOCKED_FOR_ALL_USERS
         THEN IF can_override_user_locks(actor)
              THEN [ ok |-> TRUE, holder |-> UNLOCKED ]
              ELSE [ ok |-> FALSE, holder |-> holder ]
         ELSE IF holder = actor
              THEN [ ok |-> TRUE, holder |-> UNLOCKED ]
              ELSE [ ok |-> FALSE, holder |-> holder ]

\* The names bound in the module namespace of workflow_view.py: its imports,
\* its logger and its class.
ModuleNames ==
    { "abc", "logging", "redirect", "reverse", "messages", "get_active_app",
      "has_permission", "grammatically_correct_join", "workflow_step_controller",
      "ResourceView", "WorkflowViewMixin", "get_style_for_status", "Step", "log",
      "WorkflowView" }

BoolStr(b) == IF b THEN "True" ELSE "False"

NonLockUnchanged == UNCHANGED <<steps, jobs, dag, built, done, executed, manager, sessions, resource>>

\* A caller other than the workflow views (a resource view, a job) acquires
\* the lock through the mixin and commits.
AcquireUserLock(lockable, actor, for_all_users) ==
    LET r == acquire_user_lock(user_lock[lockable], actor, for_all_users)
    IN  /\ user_lock' = [ user_lock EXCEPT ![lockable] = r.holder ]
        /\ last' = [ op |-> "acquire_user_lock", lockable |-> lockable,
                     actor |-> actor, flag |-> for_all_users, out |-> BoolStr(r.ok) ]
        /\ NonLockUnchanged

\* A caller other than the workflow views releases the lock and commits.
ReleaseUserLock(lockable, actor) ==
    LET r == release_user_lock(user_lock[lockable], actor)
    IN  /\ user_lock' = [ user_lock EXCEPT ![lockable] = r.holder ]
        /\ last' = [ op |-> "release_user_lock", lockable |-> lockable,
                     actor |-> actor, flag |-> FALSE, out |-> BoolStr(r.ok) ]
        /\ NonLockUnchanged

\* WorkflowView.acquire_lock_and_log: the isinstance check names
\* UserLockMixin, which the module has to have bound; then the mixin call,
\* the log line and session.commit().
AcquireLockAndLog(lockable, actor, for_all_users) ==
    /\ IF "UserLockMixin" \notin ModuleNames
       THEN /\ user_lock' = user_lock
            /\ last' = [ op |-> "acquire_lock_and_log", lockable |-> lockable,
                         actor |-> actor, flag |-> for_all_users,
                         out |-> "NameError", commits |-> 0 ]
       ELSE LET r == acquire_user_lock(user_lock[lockable], actor, for_all_users)
            IN  /\ user_lock' = [ user_lock EXCEPT ![lockable] = r.holder ]
                /\ last' = [ op |-> "acquire_lock_and_log", lockable |-> lockable,
                             actor |-> actor, flag |-> for_all_users,
                             out |-> BoolStr(r.ok), commits |-> 1 ]
    /\ NonLockUnchanged

\* WorkflowView.release_lock_and_log
ReleaseLockAndLog(lockable, actor) ==
    /\ IF "UserLockMixin" \notin ModuleNames
       THEN /\ user_lock' = user_lock
            /\ last' = [ op |-> "release_lock_and_log", lockable |-> lockable,
                         actor |-> actor, flag |-> FALSE, out |-> "NameError",
                         commits |-> 0 ]
       ELSE LET r == release_user_lock(user_lock[lockable], actor)
            IN  /\ user_lock' = [ user_lock EXCEPT ![lockable] = r.holder ]
                /\ last' = [ op |-> "release_lock_and_log", lockable |-> lockable,
                             actor |-> actor, flag |-> FALSE, out |-> BoolStr(r.ok),
                             commits |-> 1 ]
    /\ NonLockUnchanged

NextLock ==
    \/ \E l \in Lockables, a \in Actors, f \in BOOLEAN : AcquireUserLock(l, a, f)
    \/ \E l \in Lockables, a \in Actors : ReleaseUserLock(l, a)
    \/ \E l \in Lockables, a \in Actors, f \in BOOLEAN : AcquireLockAndLog(l, a, f)
    \/ \E l \in Lockables, a \in Actors : ReleaseLockAndLog(l, a)

SpecLock == Init /\ [][NextLock]_vars

(***************************************************************************)
(* JobStepMWV.run_job (spatial_condor_job_mwv.py).                         *)
(***************************************************************************)
\* WorkflowView.workflow_locked_for_request_user
workflow_locked_for_request_user == FALSE

\* WorkflowView.is_read_only
is_read_only(has_active_role) ==
    ~has_active_role \/ workflow_locked_for_request_user

\* The parameters of WorkflowCondorJobManager.__init__ that a keyword can bind.
ManagerInitParams ==
    { "session", "workflow_step", "user", "working_directory", "app",
      "scheduler_name", "jobs", "input_files", "gs_engine", "workflow",
      "workflow_kwargs" }

\* The keywords run_job passes to WorkflowCondorJobManager.
RunJobKwargs ==
    { "session", "resource", "workflow_step", "jobs", "user", "working_directory",
      "app", "scheduler_name", "gs_engine", "workflow", "workflow_kwargs" }

\* The on-submit lock options of a job step.
LockOnSubmitOptions ==
    { "lock_workflow_on_job_submit", "lock_resource_on_job_submit",
      "unlock_workflow_on_job_submit", "unlock_resource_on_job_submit" }

\* JobStepMWV.handle_on_submit_locking: how it ends for the options set.
handle_on_submit_locking(options) ==
    IF \/ { "lock_workflow_on_job_submit", "unlock_workflow_on_job_submit" } \subseteq options
       \/ { "lock_resource_on_job_submit", "unlock_resource_on_job_submit" } \subseteq options
    THEN "RuntimeError"
    ELSE IF options # {} /\ "UserLockMixin" \notin ModuleNames
         THEN "NameError"
         ELSE "ok"

\* The lock holders handle_on_submit_locking leaves when no helper raises.
locks_after_submit(locks, actor, options) ==
    [ l \in Lockables |->
        IF ("lock_" \o l \o "_on_job_submit") \in options
        THEN acquire_user_lock(locks[l], actor, FALSE).holder
        ELSE IF ("unlock_" \o l \o "_on_job_submit") \in options
             THEN release_user_lock(locks[l], actor).holder
             ELSE locks[l] ]

RunJobPosts == { "run-submit", "rerun-submit", "next-submit" }

\* The option pairs handle_on_submit_locking rejects as mutually exclusive.
lock_options_conflict(options) ==
    \/ { "lock_workflow_on_job_submit", "unlock_workflow_on_job_submit" } \subseteq options
    \/ { "lock_resource_on_job_submit", "unlock_resource_on_job_submit" } \subseteq options

\* The body of JobStepMWV.run_job after the permission check, statement by
\* statement: how it ends and the side effects made before it ends. binds
\* tells whether WorkflowCondorJobManager.__init__ accepts the keywords.
run_job_trace(binds, scheduler, jobs_option, lock_options) ==
    LET prepared == << "params_file_written", "scheduler_job_saved", "job_nodes_saved" >>
    IN  IF ~scheduler \/ ~jobs_option
        THEN [ out |-> "RuntimeError", effects |-> << >> ]
        ELSE IF ~binds
        THEN [ out |-> "TypeError", effects |-> << >> ]
        ELSE IF lock_options_conflict(lock_options)
        THEN [ out |-> "RuntimeError", effects |-> prepared ]
        ELSE IF handle_on_submit_locking(lock_options) = "NameError"
        THEN [ out |-> "NameError", effects |-> Append(prepared, "lock_attempted") ]
        ELSE [ out |-> "submitted",
               effects |-> prepared
                    \o (IF lock_options = {} THEN << >> ELSE << "lock_attempted" >>)
                    \o << "submitted", "committed" >> ]

\* JobStepMWV.run_job for a POST of an actor with or without the active role,
\* on a job step configured with or without the 'scheduler' and 'jobs'
\* options and with the given on-submit lock options.
RunJob(i, has_active_role, post, scheduler, jobs_option, lock_options) ==
    LET ended(out, commits) ==
            [ op |-> "run_job", step |-> i, flag |-> has_active_role,
              out |-> out, commits |-> commits, post |-> post,
              misconfigured |-> ~scheduler \/ ~jobs_option
                                    \/ lock_options_conflict(lock_options),
              effects |-> IF out \in { "redirect", "redirect_read_only" }
                          THEN << >>
                          ELSE run_job_trace(RunJobKwargs \subseteq ManagerInitParams,
                                             scheduler, jobs_option, lock_options).effects ]
        job_id == Cardinality(executed) + 1
    IN  IF post \notin { "run-submit", "rerun-submit" }
        THEN /\ last' = ended("redirect", 0)
             /\ UNCHANGED <<steps, user_lock, jobs, dag, built, done, executed, manager, sessions, resource>>
        ELSE IF is_read_only(has_active_role)
        THEN /\ last' = ended("redirect_read_only", 0)
             /\ UNCHANGED <<steps, user_lock, jobs, dag, built, done, executed, manager, sessions, resource>>
        ELSE IF ~scheduler \/ ~jobs_option
        THEN /\ last' = ended("RuntimeError", 0)
             /\ UNCHANGED <<steps, user_lock, jobs, dag, built, done, executed, manager, sessions, resource>>
        ELSE IF ~(RunJobKwargs \subseteq ManagerInitParams)
        THEN /\ last' = ended("TypeError", 0)
             /\ UNCHANGED <<steps, user_lock, jobs, dag, built, done, executed, manager, sessions, resource>>
        ELSE IF handle_on_submit_locking(lock_options) # "ok"
        THEN /\ last' = ended(handle_on_submit_locking(lock_options), 0)
             /\ UNCHANGED <<steps, user_lock, jobs, dag, built, done, executed, manager, sessions, resource>>
        ELSE /\ \E actor \in Actors :
                    user_lock' = locks_after_submit(user_lock, actor, lock_options)
             /\ executed' = executed \cup { job_id }
             /\ steps' = [ reset_next_steps(steps, i, FALSE) EXCEPT
                              ![i].status = STATUS_WORKING,
                              ![i].condor_job_id = job_id ]
             /\ last' = ended("submitted", Cardinality(lock_options) + 1)
             /\ UNCHANGED <<jobs, dag, built, done, manager, sessions, resource>>

NextJob ==
    \/ \E i \in 1..Len(steps), v \in WrittenStatuses : SetStatus(i, v)
    \/ \E i \in 1..Len(steps), r \in BOOLEAN, p \in RunJobPosts,
          s \in BOOLEAN, j \in BOOLEAN, o \in SUBSET LockOnSubmitOptions :
            RunJob(i, r, p, s, j, o)

SpecJob == Init /\ [][NextJob]_vars

(***************************************************************************)
(* WorkflowCondorJobManager (condor_workflow_manager.py): the job graph.   *)
(***************************************************************************)
JobNames == { "a", "b", "c" }

\* A job descriptor: the kwargs of a CondorWorkflowJobNode and the names of
\* its parents.
JobDicts == [ name : JobNames, parents : SUBSET JobNames ]

\* job_map[name]['job'] after the first loop of _build_job_nodes: the last
\* descriptor of that name.
job_map(job_dicts, name) ==
    CHOOSE k \in 1..Len(job_dicts) :
        /\ job_dicts[k].name = name
        /\ \A j \in 1..Len(job_dicts) : job_dicts[j].name = name => j <= k

\* job_map[job.name]['parents']
parents_of(job_dicts, k) == job_dicts[job_map(job_dicts, job_dicts[k].name)].parents

\* A parent name of some job is no key of job_map: job_map[parent_name]
\* raises KeyError.
unresolved_parent(job_dicts) ==
    \E k \in 1..Len(job_dicts) : \E p \in parents_of(job_dicts, k) :
        \A j \in 1..Len(job_dicts) : job_dicts[j].name # p

\* _build_job_nodes: one node per descriptor, its parents the nodes that
\* job_map gives for the parent names.
build_job_nodes(job_dicts) ==
    [ k \in 1..Len(job_dicts) |->
        [ name |-> job_dicts[k].name,
          parents |-> { job_map(job_dicts, p) : p \in parents_of(job_dicts, k) },
          finalize |-> FALSE ] ]

\* job.children_nodes
children_nodes(nodes, k) == { j \in 1..Len(nodes) : k \in nodes[j].parents }

prepare_finalize_after_last_job(job_dicts) ==
    LET nodes == build_job_nodes(job_dicts)
    IN  Append(nodes, [ name |-> "finalize", parents |-> { Len(nodes) },
                        finalize |-> TRUE ])

prepare_finalize_after_roots(job_dicts) ==
    LET nodes == build_job_nodes(job_dicts)
    IN  Append(nodes, [ name |-> "finalize",
                        parents |-> { k \in 1..Len(nodes) : nodes[k].parents = {} },
                        finalize |-> TRUE ])

\* prepare(): the job nodes, then the finalize node bound to every job
\* without children.
prepare(job_dicts) ==
    LET nodes == build_job_nodes(job_dicts)
    IN  Append(nodes, [ name |-> "finalize",
                        parents |-> { k \in 1..Len(nodes) : children_nodes(nodes, k) = {} },
                        finalize |-> TRUE ])

DagUnchanged == UNCHANGED <<steps, last, user_lock, executed, sessions, resource>>

\* An item of a job list that is neither a dict nor a CondorWorkflowJobNode.
Malformed == [ name |-> "malformed", parents |-> {} ]

\* validate_jobs(jobs) for a list: TRUE when it does not raise ValueError.
validate_jobs(job_list) ==
    /\ Len(job_list) > 0
    /\ \A k \in 1..Len(job_list) : job_list[k] # Malformed

\* The constructor followed by prepare(), for a manager m given job_list as
\* its jobs, or a callback that returns job_list: how it ends, the nodes it
\* binds to self.jobs and the scheduler records it has saved by then.
\* A static list is validated by the constructor; a callback is called and
\* its list validated after the condor workflow is created and saved; the
\* first loop of _build_job_nodes saves every node before the second loop
\* looks a parent name up.
construct_and_prepare(m, job_list) ==
    LET created == [ m EXCEPT !.workflows_saved = @ + 1 ]
    IN  IF ~m.jobs_callback /\ ~validate_jobs(job_list)
        THEN [ built |-> "ValueError", nodes |-> << >>, manager |-> m ]
        ELSE IF m.jobs_callback /\ ~validate_jobs(job_list)
        THEN [ built |-> "ValueError", nodes |-> << >>, manager |-> created ]
        ELSE IF unresolved_parent(job_list)
        THEN [ built |-> "KeyError", nodes |-> << >>,
               manager |-> [ created EXCEPT !.nodes_saved = @ + Len(job_list) ] ]
        ELSE [ built |-> "prepared", nodes |-> prepare(job_list),
               manager |-> [ created EXCEPT !.nodes_saved = @ + Len(job_list) + 1 ] ]

\* WorkflowCondorJobManager(...).prepare() on the declared jobs: validate_jobs
\* rejects an empty list, job_map[parent_name] an undeclared parent.
Prepare ==
    /\ built = "new"
    /\ LET r == construct_and_prepare(manager, jobs)
       IN  /\ built' = r.built
           /\ dag' = IF r.built = "prepared" THEN r.nodes ELSE dag
           /\ manager' = r.manager
    /\ UNCHANGED <<jobs, done>>
    /\ DagUnchanged

\* WorkflowCondorJobManager.run_job(): prepare() unless prepared, then
\* self.workflow.execute().
ManagerRunJob ==
    /\ built \in { "new", "prepared" }
    /\ executed = {}
    /\ LET r == IF built = "new"
                THEN construct_and_prepare(manager, jobs)
                ELSE [ built |-> built, nodes |-> dag, manager |-> manager ]
       IN  /\ built' = r.built
           /\ dag' = IF r.built = "prepared" THEN r.nodes ELSE dag
           /\ manager' = r.manager
           /\ executed' = IF r.built = "prepared"
                          THEN executed \cup { r.manager.workflows_saved }
                          ELSE executed
    /\ UNCHANGED <<jobs, done, steps, last, user_lock, sessions, resource>>

\* The scheduler runs a node of the executed workflow once all its parents
\* have completed.
RunNode(n) ==
    /\ built = "prepared"
    /\ n \notin done
    /\ dag[n].parents \subseteq done
    /\ done' = done \cup { n }
    /\ UNCHANGED <<jobs, dag, built, manager, sessions, resource>>
    /\ DagUnchanged

\* A manager constructed with any list of at most MaxJobs job descriptors.
InitDag ==
    /\ steps = [ k \in 1..NumSteps |-> NewStep ]
    /\ last = NoOp
    /\ user_lock = [ l \in Lockables |-> UNLOCKED ]
    /\ jobs \in UNION { [ 1..n -> JobDicts ] : n \in 0..MaxJobs }
    /\ dag = << >>
    /\ built = "new"
    /\ done = {}
    /\ executed = {}
    /\ manager = NewManager
    /\ sessions = NoSessions
    /\ resource = NewResource

NextDag ==
    \/ Prepare
    \/ \E n \in 1..Len(dag) : RunNode(n)

SpecDag == InitDag /\ [][NextDag]_vars

\* A manager constructed with a list of at most MaxBuildJobs items, or with
\* a callback that returns such a list; an item can be malformed.
InitBuild ==
    /\ steps = [ k \in 1..NumSteps |-> NewStep ]
    /\ last = NoOp
    /\ user_lock = [ l \in Lockables |-> UNLOCKED ]
    /\ jobs \in UNION { [ 1..n -> JobDicts \cup { Malformed } ] : n \in 0..MaxBuildJobs }
    /\ dag = << >>
    /\ built = "new"
    /\ done = {}
    /\ executed = {}
    /\ manager \in { [ NewManager EXCEPT !.jobs_callback = c ] : c \in BOOLEAN }
    /\ sessions = NoSessions
    /\ resource = NewResource

NextBuild ==
    \/ Prepare
    \/ ManagerRunJob

SpecBuild == InitBuild /\ [][NextBuild]_vars

(***************************************************************************)
(* Claims about the workflow status derivation and the step resets.        *)
(***************************************************************************)
StatusesOf(ss) == [ k \in 1..Len(ss) |-> ss[k].status ]
ParametersOf(ss) == [ k \in 1..Len(ss) |-> ss[k].parameters ]

\* The positions of the steps whose ROOT status is not in the complete-set.
Incomplete(ss) == { k \in 1..Len(ss) : ss[k].status \notin COMPLETE_STATUSES }

\* C3: get_status() is the ROOT status of the first step, in order, whose
\* ROOT status is not in the complete-set, except that it is CONTINUE when
\* that step is not the first step and its status is PENDING.
C3_StatusOfNextIncompleteStep ==
    Incomplete(steps) # {} =>
        LET k == CHOOSE k \in Incomplete(steps) : \A j \in Incomplete(steps) : k <= j
        IN  get_status(steps) =
                IF k > 1 /\ steps[k].status = STATUS_PENDING
                THEN STATUS_CONTINUE
                ELSE steps[k].status

\* [COMPLETE, PENDING, PENDING] has been written and derives CONTINUE.
C3_Witness ==
    /\ last.op = "set_status"
    /\ StatusesOf(steps) = <<STATUS_COMPLETE, STATUS_PENDING, STATUS_PENDING>>
    /\ get_status(steps) = STATUS_CONTINUE

\* C4: after reset_next_steps(step, include_current=False) every step after
\* the given one is PENDING: one that was not PENDING has been reset, one that
\* was PENDING is exactly as it was; the steps up to the given one that were
\* all COMPLETE stay COMPLETE.
C4_ResetNextStepsLeavesLaterPending ==
    [][ (last'.op = "reset_next_steps" /\ ~last'.flag) =>
            /\ \A k \in 1..Len(steps) : k > last'.step =>
                /\ steps'[k].status = STATUS_PENDING
                /\ IF steps[k].status = STATUS_PENDING
                   THEN steps'[k] = steps[k]
                   ELSE steps'[k] = reset(steps[k])
            /\ (\A k \in 1..Len(steps) : steps[k].status = STATUS_COMPLETE) =>
                    StatusesOf(steps') =
                        [ k \in 1..Len(steps) |->
                            IF k <= last'.step THEN STATUS_COMPLETE ELSE STATUS_PENDING ]
      ]_vars

\* Step 2 of four steps was given: steps 3 and 4 are reset, steps 1 and 2 are
\* COMPLETE and keep the parameters the user entered.
C4_Witness ==
    /\ last.op = "reset_next_steps" /\ last.step = 2 /\ ~last.flag
    /\ Len(steps) = 4
    /\ StatusesOf(steps) =
            <<STATUS_COMPLETE, STATUS_COMPLETE, STATUS_PENDING, STATUS_PENDING>>
    /\ ParametersOf(steps) = <<ParamEntered, ParamEntered, ParamInitial, ParamInitial>>

\* C8: a save_step_data request of an actor who lacks the active role of the
\* step (the workflow is never reported locked for the request user) changes
\* no step: no status, no parameters, no reset.
C8_NoMutationWithoutActiveRole ==
    [][ (last'.op = "save_step_data" /\ ~last'.flag) => steps' = steps ]_vars

\* C9 as stated: reset_next_steps changes no step at or before the given one.
C9_NeverMutatesAtOrBefore ==
    [][ last'.op = "reset_next_steps" =>
            \A k \in 1..Len(steps) : k <= last'.step => steps'[k] = steps[k] ]_vars

\* C9 amended: reset_next_steps changes no step before the given one, and
\* changes the given step only when include_current is set.
C9_NeverMutatesBefore ==
    [][ last'.op = "reset_next_steps" =>
            \A k \in 1..Len(steps) :
                (k < last'.step \/ (k = last'.step /\ ~last'.flag)) =>
                    steps'[k] = steps[k] ]_vars

\* Step 2 was given without include_current: it and step 1 are still
\* COMPLETE with their parameters, the step after it is reset.
C9_Witness ==
    /\ last.op = "reset_next_steps" /\ last.step = 2 /\ ~last.flag
    /\ steps[1].status = STATUS_COMPLETE /\ steps[1].parameters = ParamEntered
    /\ steps[2].status = STATUS_COMPLETE /\ steps[2].parameters = ParamEntered
    /\ steps[3] = NewStep

\* C10: calling reset_next_steps again, with the same step and the same
\* include_current, on the steps one call left gives the same statuses.
C10_ResetNextStepsIdempotent ==
    [][ last'.op = "reset_next_steps" =>
            StatusesOf(reset_next_steps(steps', last'.step, last'.flag))
                = StatusesOf(steps') ]_vars

\* A reset of step 1 and everything after it has run and left all PENDING.
C10_Witness ==
    /\ last.op = "reset_next_steps" /\ last.step = 1 /\ last.flag
    /\ \A k \in 1..Len(steps) : steps[k] = NewStep

(***************************************************************************)
(* Claims about the lock helpers.                                          *)
(***************************************************************************)
\* The lockable is held by someone other than the actor: by another actor, or
\* for all users while the actor has no override rights.
LockedByOther(holder, actor) ==
    \/ holder \in Actors /\ holder # actor
    \/ holder = LOCKED_FOR_ALL_USERS /\ ~can_override_user_locks(actor)

\* The actor is the one who may release the lock that is held.
MayRelease(holder, actor) ==
    \/ holder \in Actors /\ holder = actor
    \/ holder = LOCKED_FOR_ALL_USERS /\ can_override_user_locks(actor)

\* C5: an acquire through acquire_lock_and_log by an actor on a lockable held
\* by a different holder does not raise: it comes back with the lock not
\* acquired and the holder unchanged.
C5_AcquireOnHeldLockFails ==
    [][ ( /\ last'.op = "acquire_lock_and_log"
          /\ ~last'.flag
          /\ LockedByOther(user_lock[last'.lockable], last'.actor) ) =>
            /\ last'.out = "False"
            /\ user_lock' = user_lock ]_vars

\* C6: through release_lock_and_log a held lock is released only by the actor
\* who may release it (the holder of a per-actor lock, an override actor for a
\* lock for all users); every other release attempt comes back with the lock
\* not released and the holder unchanged.
C6_ReleaseAuthorised ==
    [][ last'.op = "release_lock_and_log" =>
            LET holder == user_lock[last'.lockable]
            IN  /\ user_lock'[last'.lockable] # holder => MayRelease(holder, last'.actor)
                /\ (holder # UNLOCKED /\ ~MayRelease(holder, last'.actor)) =>
                        /\ last'.out = "False"
                        /\ user_lock' = user_lock ]_vars

(***************************************************************************)
(* Claims about job submission.                                            *)
(***************************************************************************)
\* C7: a run_job request that gets past its checks (a run or rerun POST of an
\* actor who may edit, on a step with a scheduler and jobs configured) ends
\* with the graph handed to the scheduler and the step's WORKING status and
\* run identifier durable, written by the one commit of the request.
C7_WorkingDurableWithSubmission ==
    (last.op = "run_job" /\ last.out \notin { "redirect", "redirect_read_only", "RuntimeError" })
        => /\ last.out = "submitted"
           /\ last.commits = 1
           /\ steps[last.step].status = STATUS_WORKING
           /\ steps[last.step].condor_job_id \in executed

(***************************************************************************)
(* Claims about the job graph.                                             *)
(***************************************************************************)
\* The declared job nodes of the built graph and its finalize nodes.
DeclaredNodes == 1..Len(jobs)
FinalizeNodes == { k \in 1..Len(dag) : dag[k].finalize }

\* The transitive ancestors of node k, following at most n parent links.
RECURSIVE AncestorsWithin(_, _, _)
AncestorsWithin(g, k, n) ==
    IF n = 0
    THEN {}
    ELSE g[k].parents \cup UNION { AncestorsWithin(g, p, n - 1) : p \in g[k].parents }

Ancestors(g, k) == AncestorsWithin(g, k, Len(g))

\* C1: the graph prepare() builds has one node per descriptor and exactly one
\* finalize node; every declared node that no declared node has as a parent
\* is a parent of the finalize node; no node has the finalize node as parent.
C1_OneFinalizeAfterEveryLeaf ==
    built = "prepared" =>
        /\ Len(jobs) >= 1
        /\ Len(dag) = Len(jobs) + 1
        /\ Cardinality(FinalizeNodes) = 1
        /\ \A f \in FinalizeNodes :
            /\ \A k \in DeclaredNodes :
                (\A j \in DeclaredNodes : k \notin dag[j].parents) => k \in dag[f].parents
            /\ \A j \in 1..Len(dag) : f \notin dag[j].parents

\* Two independent jobs with no parents: finalize has both as parents.
C1_Witness ==
    /\ built = "prepared"
    /\ Len(jobs) = 2
    /\ jobs[1] = [ name |-> "a", parents |-> {} ]
    /\ jobs[2] = [ name |-> "b", parents |-> {} ]
    /\ dag[3].finalize /\ dag[3].parents = { 1, 2 }

\* The built graph over the declared nodes has no cycle.
AcyclicDeclared == \A k \in DeclaredNodes : k \notin Ancestors(dag, k)

\* C2: when the declared parent relation is acyclic, every declared node is
\* a transitive ancestor of the finalize node, the finalize node has run only
\* if every declared node has, and when the scheduler can run nothing more the
\* finalize node has run.
C2_FinalizeAfterAllDeclaredJobs ==
    (built = "prepared" /\ AcyclicDeclared) =>
        \A f \in FinalizeNodes :
            /\ DeclaredNodes \subseteq Ancestors(dag, f)
            /\ f \in done => DeclaredNodes \subseteq done
            /\ (\A n \in 1..Len(dag) : n \in done \/ ~(dag[n].parents \subseteq done))
                    => f \in done

\* A fan-out (a before b and c) has run to its end, finalize last.
C2_Witness ==
    /\ built = "prepared"
    /\ Len(jobs) = 3
    /\ jobs[1] = [ name |-> "a", parents |-> {} ]
    /\ jobs[2] = [ name |-> "b", parents |-> { "a" } ]
    /\ jobs[3] = [ name |-> "c", parents |-> { "a" } ]
    /\ dag[4].parents = { 2, 3 }
    /\ done = { 1, 2, 3, 4 }

(***************************************************************************)
(* Claims about a workflow with no incomplete step.                        *)
(***************************************************************************)
\* C11: when no step has a ROOT status outside the complete-set (every step
\* is complete, or the workflow has no steps), get_status() is NONE or a
\* complete-set value, and so never PENDING, CONTINUE, WORKING, ERROR or
\* FAILED; complete is then true exactly when the workflow has a step.
C11_AllFinishedStatus ==
    Incomplete(steps) = {} =>
        /\ get_status(steps) \in COMPLETE_STATUSES \cup { STATUS_NONE }
        /\ get_status(steps) \notin { STATUS_PENDING, STATUS_CONTINUE, STATUS_WORKING,
                                      STATUS_ERROR, STATUS_FAILED }
        /\ Len(steps) = 0 => get_status(steps) = STATUS_NONE
        /\ Len(steps) > 0 => get_status(steps) = steps[Len(steps)].status

\* Both steps of a workflow have been written complete, with different
\* complete-set values; the derived status is the last step's.
C11_Witness ==
    /\ last.op = "set_status"
    /\ StatusesOf(steps) = <<STATUS_COMPLETE, STATUS_APPROVED>>
    /\ get_status(steps) = STATUS_APPROVED

\* A workflow without steps derives NONE.
C11_WitnessNoSteps ==
    /\ Len(steps) = 0
    /\ get_status(steps) = STATUS_NONE

(***************************************************************************)
(* The list-index queries of TethysWorkflow (models/workflow.py).  A step  *)
(* of the workflow is given by its position; ForeignStep is a step of      *)
(* another workflow; a step that is not there (None) is 0.                 *)
(***************************************************************************)
StepNames == { "Input", "Review" }
UnknownName == "Missing"
ForeignStep == NumNamedSteps + 10
NoStep == 0

\* A Step of the template with its name.
NamedStep(name) ==
    [ name |-> name, status |-> NewStep.status, parameters |-> NewStep.parameters,
      dirty |-> NewStep.dirty, condor_job_id |-> NewStep.condor_job_id ]

\* step in self.steps
belongs(ss, step) == step \in 1..Len(ss)

\* get_step_by_name(name): the first step of that name; the loop falls
\* through and the method returns None when there is none.
get_step_by_name(ss, name) ==
    LET named == { k \in 1..Len(ss) : ss[k].name = name }
    IN  IF named = {}
        THEN [ out |-> "returned", result |-> <<NoStep>> ]
        ELSE [ out |-> "returned",
               result |-> << CHOOSE k \in named : \A j \in named : k <= j >> ]

\* get_adjacent_steps(step): the previous and the next step.
get_adjacent_steps(ss, step) ==
    IF ~belongs(ss, step)
    THEN [ out |-> "ValueError", result |-> << >> ]
    ELSE [ out |-> "returned",
           result |-> << IF step - 1 >= 1 THEN step - 1 ELSE NoStep,
                         IF step + 1 <= Len(ss) THEN step + 1 ELSE NoStep >> ]

\* get_previous_steps(step): self.steps[:step_index]
get_previous_steps(ss, step) ==
    IF ~belongs(ss, step)
    THEN [ out |-> "ValueError", result |-> << >> ]
    ELSE [ out |-> "returned", result |-> [ k \in 1..(step - 1) |-> k ] ]

\* get_next_steps(step) with its membership check: self.steps[step_index + 1:]
get_next_steps_of(ss, step) ==
    IF ~belongs(ss, step)
    THEN [ out |-> "ValueError", result |-> << >> ]
    ELSE [ out |-> "returned",
           result |-> [ k \in 1..(Len(ss) - step) |-> step + k ] ]

QueryOps ==
    { "get_step_by_name", "get_adjacent_steps", "get_previous_steps", "get_next_steps" }

\* One call of a query: it assigns nothing, its outcome is recorded.
Query(op, arg) ==
    LET r == IF op = "get_step_by_name" THEN get_step_by_name(steps, arg)
             ELSE IF op = "get_adjacent_steps" THEN get_adjacent_steps(steps, arg)
             ELSE IF op = "get_previous_steps" THEN get_previous_steps(steps, arg)
             ELSE get_next_steps_of(steps, arg)
    IN  /\ steps' = steps
        /\ last' = [ op |-> op, arg |-> <<arg>>, flag |-> FALSE, out |-> r.out,
                     result |-> r.result ]
        /\ OthersUnchanged

\* A workflow of NumNamedSteps steps whose names are drawn from StepNames:
\* two steps can bear the same name.
InitNamed ==
    /\ steps \in [ 1..NumNamedSteps -> { NamedStep(n) : n \in StepNames } ]
    /\ InitOthers

NextQuery ==
    \/ \E i \in 1..Len(steps), v \in WrittenStatuses : SetStatus(i, v)
    \/ \E name \in StepNames \cup { UnknownName } : Query("get_step_by_name", name)
    \/ \E op \in QueryOps \ { "get_step_by_name" },
          step \in 1..Len(steps) \cup { ForeignStep } : Query(op, step)

SpecQuery == InitNamed /\ [][NextQuery]_vars

\* The argument of the query that produced this state names nothing of the
\* workflow: a step of another workflow, a name no step bears.
QueryOfForeign(l, ss) ==
    /\ l.op \in QueryOps
    /\ IF l.op = "get_step_by_name"
       THEN \A k \in 1..Len(ss) : ss[k].name # l.arg[1]
       ELSE l.arg[1] \notin 1..Len(ss)

\* C12: each of get_adjacent_steps, get_previous_steps, get_next_steps and
\* get_step_by_name raises the domain error when the step given does not
\* belong to the workflow (for get_step_by_name: no step bears the name), and
\* none of them changes a step.
C12_QueriesRaiseOnForeignStep ==
    [][ last'.op \in QueryOps =>
            /\ steps' = steps
            /\ QueryOfForeign(last', steps) => last'.out = "ValueError" ]_vars

\* The three step queries do raise on a step of another workflow.
C12_StepQueriesRaise ==
    [][ (last'.op \in QueryOps \ { "get_step_by_name" } /\ QueryOfForeign(last', steps))
            => (last'.out = "ValueError" /\ steps' = steps) ]_vars

(***************************************************************************)
(* Claims about a job graph that cannot be built.                          *)
(***************************************************************************)
\* C13: when the construction of the job graph raises (the job list, static
\* or returned by the callback, is empty or malformed, or a parent name does
\* not resolve), no condor workflow record and no job node has been created
\* or saved, and nothing has been executed.
C13_FailsFastNothingSaved ==
    built \in { "ValueError", "KeyError" } =>
        /\ manager.workflows_saved = 0
        /\ manager.nodes_saved = 0
        /\ executed = {}

\* Whatever has been saved, a construction that raised has executed nothing.
C13_NothingExecutedOnFailure ==
    built \in { "ValueError", "KeyError" } => executed = {}

(***************************************************************************)
(* JobStepMWV.serialize_parameters (spatial_condor_job_mwv.py).            *)
(***************************************************************************)
\* Step.to_dict(): the data of the step at position k, its parameters
\* included.
to_dict(ss, k) == [ id |-> k, name |-> ss[k].name, parameters |-> ss[k].parameters ]

\* serialize_parameters(step): parameters.update({name: to_dict()}) over
\* get_previous_steps(step) in order, so that the entry of a name is the
\* data of the last previous step of that name.
serialize_parameters(ss, step) ==
    LET previous_steps == get_previous_steps(ss, step).result
        names == { ss[previous_steps[j]].name : j \in 1..Len(previous_steps) }
        last_named(n) ==
            CHOOSE k \in 1..Len(previous_steps) :
                /\ ss[previous_steps[k]].name = n
                /\ \A j \in 1..Len(previous_steps) :
                        ss[previous_steps[j]].name = n => j <= k
    IN  [ n \in names |-> to_dict(ss, previous_steps[last_named(n)]) ]

\* The payload of a submission from the step at position i.
SerializeParameters(i) ==
    /\ steps' = steps
    /\ last' = [ op |-> "serialize_parameters", step |-> i, flag |-> FALSE,
                 out |-> "returned", payload |-> serialize_parameters(steps, i) ]
    /\ OthersUnchanged

NextSerialize ==
    \/ \E i \in 1..Len(steps) : SetParameter(i)
    \/ \E i \in 1..Len(steps) : SerializeParameters(i)

SpecSerialize == InitNamed /\ [][NextSerialize]_vars

\* The positions of the steps whose data the payload holds.
StepsInPayload(payload) == { payload[n].id : n \in DOMAIN payload }

\* C14: the payload of a submission holds, under the step's name, the data of
\* every step strictly before the submitting step, and the data of no other
\* step; also when two of the steps before it bear the same name.
C14_PayloadHasEveryPriorStep ==
    last.op = "serialize_parameters" =>
        /\ StepsInPayload(last.payload) = { k \in 1..Len(steps) : k < last.step }
        /\ \A n \in DOMAIN last.payload : last.payload[n].name = n

\* The payload never holds the data of the submitting step or a later one,
\* and what it holds is the current data of a prior step under its name.
C14_PayloadOnlyPriorSteps ==
    last.op = "serialize_parameters" =>
        /\ StepsInPayload(last.payload) \subseteq { k \in 1..Len(steps) : k < last.step }
        /\ \A n \in DOMAIN last.payload :
                last.payload[n] = to_dict(steps, last.payload[n].id) /\ last.payload[n].name = n

(***************************************************************************)
(* Claims about rerunning a job step.                                      *)
(***************************************************************************)
\* C15: a rerun request ('rerun-submit' of an actor who may edit, on a step
\* with a scheduler and jobs configured) first resets the step to its
\* never-visited state and then builds and submits a fresh job graph: it
\* ends with a condor workflow executed that was not executed before, and
\* the step is the reset step, WORKING under the identifier of that workflow.
C15_RerunResetsThenResubmits ==
    [][ ( /\ last'.op = "run_job"
          /\ last'.post = "rerun-submit"
          /\ last'.out \notin { "redirect_read_only", "RuntimeError" } ) =>
            /\ last'.out = "submitted"
            /\ \E id \in executed' \ executed :
                    steps'[last'.step] =
                        [ reset(steps[last'.step]) EXCEPT !.status = STATUS_WORKING,
                                                         !.condor_job_id = id ]
      ]_vars

\* No request to run_job ever changes the set of executed condor workflows
\* other than by adding a new one.
C15_NoExecutedGraphMutated ==
    [][ last'.op = "run_job" => executed \subseteq executed' ]_vars

(***************************************************************************)
(* A user request and a job reporting back, each in its own database       *)
(* session: a session loads the steps, the handler assigns to the loaded   *)
(* rows, and session.commit() writes what was assigned over what is        *)
(* stored.  Nothing versions the rows.                                     *)
(***************************************************************************)
\* The states a step can be in when a request and a job meet.
RaceStepStates ==
    { [ status |-> st, parameters |-> pd[1], dirty |-> pd[2], condor_job_id |-> 0 ] :
        st \in { STATUS_PENDING, STATUS_WORKING, STATUS_COMPLETE },
        pd \in { <<ParamInitial, FALSE>>, <<ParamEntered, FALSE>>, <<ParamEntered, TRUE>> } }

\* The POSTs that make a user request reset steps, and the statuses a
\* finished job reports.
RequestKinds == { "reset-submit", "next-submit", "rerun-submit" }
JobReports == { STATUS_COMPLETE, STATUS_ERROR }

\* The attributes Step.reset() assigns on the step at position k.
reset_cells(k) == { <<k, "status">>, <<k, "parameters">>, <<k, "dirty">> }

\* The attributes reset_next_steps(step, include_current) assigns.
reset_next_steps_cells(ss, i, include_current) ==
    UNION { reset_cells(k) :
                k \in { j \in get_next_steps(ss, i) : ss[j].status # STATUS_PENDING }
                         \cup (IF include_current THEN { i } ELSE {}) }

\* What the handler of a request does in its session on the steps ss it
\* loaded: how it ends, the rows as it leaves them and the attributes it
\* assigned.  'reset-submit' and 'next-submit' are save_step_data requests;
\* 'rerun-submit' is a run_job request of an actor who may edit, on a step
\* with a scheduler and jobs configured and no lock option.
request_writes(kind, ss, i) ==
    IF kind = "reset-submit"
    THEN [ out |-> "redirect_current", steps |-> reset_next_steps(ss, i, TRUE),
           cells |-> reset_next_steps_cells(ss, i, TRUE) ]
    ELSE IF kind = "next-submit"
    THEN [ out |-> next_or_previous_redirect(kind), steps |-> process_step_data(ss, i),
           cells |-> IF ss[i].dirty
                     THEN reset_next_steps_cells(ss, i, FALSE) \cup { <<i, "dirty">> }
                     ELSE {} ]
    ELSE IF ~(RunJobKwargs \subseteq ManagerInitParams)
    THEN [ out |-> "TypeError", steps |-> ss, cells |-> {} ]
    ELSE [ out |-> "submitted",
           steps |-> [ reset_next_steps(ss, i, FALSE) EXCEPT
                          ![i].status = STATUS_WORKING,
                          ![i].condor_job_id = Cardinality(executed) + 1 ],
           cells |-> reset_next_steps_cells(ss, i, FALSE)
                        \cup { <<i, "status">>, <<i, "condor_job_id">> } ]

\* session.commit(): the assigned attributes overwrite the stored ones.
commit(stored, assigned, cells) ==
    [ k \in 1..Len(stored) |->
        [ f \in DOMAIN stored[k] |->
            IF <<k, f>> \in cells THEN assigned[k][f] ELSE stored[k][f] ] ]

RaceUnchanged == UNCHANGED <<user_lock, jobs, dag, built, done, manager, resource>>

\* A user request on step i arrives: its session loads the steps.
RequestBegin(i, kind) ==
    /\ sessions.user.phase = "idle"
    /\ sessions' = [ sessions EXCEPT !.user =
                        [ phase |-> "open", kind |-> kind, step |-> i,
                          snapshot |-> steps ] ]
    /\ last' = [ op |-> "request_begin", step |-> i, flag |-> FALSE, out |-> "none" ]
    /\ UNCHANGED <<steps, executed>>
    /\ RaceUnchanged

\* The handler of the request runs on what was loaded and commits.
RequestCommit ==
    /\ sessions.user.phase = "open"
    /\ LET u == sessions.user
           w == request_writes(u.kind, u.snapshot, u.step)
       IN  /\ steps' = commit(steps, w.steps, w.cells)
           /\ executed' = IF w.out = "submitted"
                          THEN executed \cup { Cardinality(executed) + 1 }
                          ELSE executed
           /\ sessions' = [ sessions EXCEPT !.user =
                               [ phase |-> "closed", kind |-> u.kind, step |-> u.step,
                                 loaded |-> u.snapshot[u.step].status ] ]
           /\ last' = [ op |-> "request_commit", step |-> u.step, flag |-> FALSE,
                        out |-> w.out, kind |-> u.kind ]
    /\ RaceUnchanged

\* The job of step i has finished: its session loads the step.
JobBegin(i, value) ==
    /\ sessions.job.phase = "idle"
    /\ sessions' = [ sessions EXCEPT !.job =
                        [ phase |-> "open", step |-> i, value |-> value,
                          loaded |-> steps[i].status ] ]
    /\ last' = [ op |-> "job_begin", step |-> i, flag |-> FALSE, out |-> "none" ]
    /\ UNCHANGED <<steps, executed>>
    /\ RaceUnchanged

\* The job writes the ROOT status of its step and commits.
JobCommit ==
    /\ sessions.job.phase = "open"
    /\ LET j == sessions.job
       IN  /\ steps' = commit(steps, [ steps EXCEPT ![j.step] = set_status(@, j.value) ],
                              { <<j.step, "status">> })
           /\ sessions' = [ sessions EXCEPT !.job =
                               [ phase |-> "closed", step |-> j.step, value |-> j.value,
                                 loaded |-> j.loaded ] ]
           /\ last' = [ op |-> "job_commit", step |-> j.step, flag |-> FALSE,
                        out |-> "none", value |-> j.value ]
    /\ UNCHANGED executed
    /\ RaceUnchanged

InitRace ==
    /\ steps \in [ 1..NumRaceSteps -> RaceStepStates ]
    /\ InitOthers

NextRace ==
    \/ \E i \in 1..Len(steps), kind \in RequestKinds : RequestBegin(i, kind)
    \/ RequestCommit
    \/ \E i \in 1..Len(steps), v \in JobReports : JobBegin(i, v)
    \/ JobCommit

SpecRace == InitRace /\ [][NextRace]_vars

(***************************************************************************)
(* Claims about a job completion racing a user-initiated reset.            *)
(***************************************************************************)
\* What a user-initiated reset of the given kind stores in the ROOT status of
\* the step at position k, given the steps its session loaded: PENDING for
\* the step a 'reset-submit' is about and for every later step that was not
\* PENDING, PENDING for the not-PENDING steps after a dirty step that is
\* saved, WORKING for the step that is rerun; "" when it stores nothing.
ResetStores(kind, snapshot, i, k) ==
    IF kind = "reset-submit"
    THEN IF k = i \/ (k > i /\ snapshot[k].status # STATUS_PENDING)
         THEN STATUS_PENDING ELSE ""
    ELSE IF kind = "next-submit"
    THEN IF snapshot[i].dirty /\ k > i /\ snapshot[k].status # STATUS_PENDING
         THEN STATUS_PENDING ELSE ""
    ELSE IF k = i THEN STATUS_WORKING
         ELSE IF k > i /\ snapshot[k].status # STATUS_PENDING
              THEN STATUS_PENDING ELSE ""

\* The commit that ends a step of the race stores the status its writer
\* wrote, whatever the other writer committed before; kinds are the kinds of
\* user-initiated reset the statement is made for.
LastCommitWins(kinds) ==
    /\ last'.op = "job_commit" => steps'[last'.step].status = last'.value
    /\ (last'.op = "request_commit" /\ last'.kind \in kinds) =>
            \A k \in 1..Len(steps) :
                LET stored == ResetStores(last'.kind, sessions.user.snapshot, last'.step, k)
                IN  stored # "" => steps'[k].status = stored

\* C16: status writes are last-write-wins: when a job's completion write and
\* a user-initiated reset (reset-submit, the reset after a dirty step is
\* saved, or a rerun) of the same step interleave, the one that commits last
\* determines the stored status: the completion is lost (PENDING or WORKING
\* stored after the job finished) or the reset is overwritten (COMPLETE or
\* ERROR stored after the reset).
C16_LastWriteWins ==
    [][ LastCommitWins(RequestKinds) ]_vars

\* The same for the resets made by save_step_data alone.
C16_LastWriteWinsSaveStepData ==
    [][ LastCommitWins({ "reset-submit", "next-submit" }) ]_vars

\* The request and the job of the same step overlapped: both loaded the step
\* WORKING, and both have committed.
RaceOver(kind) ==
    /\ sessions.user.phase = "closed" /\ sessions.job.phase = "closed"
    /\ sessions.user.kind = kind
    /\ sessions.user.loaded = STATUS_WORKING /\ sessions.job.loaded = STATUS_WORKING

\* The completion is lost: the job reported COMPLETE, the reset-submit of the
\* same step committed last, PENDING is stored.
C16_CompletionLost ==
    /\ RaceOver("reset-submit") /\ sessions.user.step = sessions.job.step
    /\ last.op = "request_commit"
    /\ sessions.job.value = STATUS_COMPLETE
    /\ steps[sessions.job.step].status = STATUS_PENDING

\* The reset is overwritten: the reset-submit committed, the job of the same
\* step committed last, COMPLETE is stored on the reset step.
C16_ResetOverwritten ==
    /\ RaceOver("reset-submit") /\ sessions.user.step = sessions.job.step
    /\ last.op = "job_commit"
    /\ steps[sessions.job.step] = [ NewStep EXCEPT !.status = STATUS_COMPLETE ]

\* The same two outcomes for the reset that follows the save of a dirty
\* earlier step: the job step after it ends PENDING, or COMPLETE.
C16_DirtyResetCompletionLost ==
    /\ sessions.user.phase = "closed" /\ sessions.job.phase = "closed"
    /\ sessions.user.kind = "next-submit" /\ sessions.user.step < sessions.job.step
    /\ sessions.job.loaded = STATUS_WORKING
    /\ last.op = "request_commit"
    /\ steps[sessions.job.step].status = STATUS_PENDING

C16_DirtyResetOverwritten ==
    /\ sessions.user.phase = "closed" /\ sessions.job.phase = "closed"
    /\ sessions.user.kind = "next-submit" /\ sessions.user.step < sessions.job.step
    /\ sessions.job.loaded = STATUS_WORKING
    /\ last.op = "job_commit"
    /\ steps[sessions.job.step] = [ NewStep EXCEPT !.status = STATUS_COMPLETE ]

\* A rerun that raced the completion of its step has stored nothing: the
\* job's COMPLETE stands although the rerun ended last.
C16_RerunStoresNothing ==
    /\ RaceOver("rerun-submit") /\ sessions.user.step = sessions.job.step
    /\ last.op = "request_commit" /\ last.out = "TypeError"
    /\ steps[sessions.job.step].status = STATUS_COMPLETE

(***************************************************************************)
(* Lock option processing of the step views: WorkflowView                  *)
(* (workflow_view.py) and its override in JobStepMWV                       *)
(* (spatial_condor_job_mwv.py).                                            *)
(***************************************************************************)
\* The step options each method reads.
OnInitOptions ==
    { "release_workflow_lock_on_init", "release_resource_lock_on_init",
      "workflow_lock_required", "resource_lock_required" }
OnCompletionOptions ==
    { "release_workflow_lock_on_completion", "release_resource_lock_on_completion" }
OnJobSubmitLockOptions == { "lock_resource_on_job_submit", "lock_workflow_on_job_submit" }
OnJobCompleteUnlockOptions ==
    { "unlock_resource_on_job_complete", "unlock_workflow_on_job_complete" }

StepViews == { "WorkflowView", "JobStepMWV" }

\* A call of release_lock_and_log / acquire_lock_and_log.
LockCall(kind, lockable, for_all_users) ==
    [ kind |-> kind, lockable |-> lockable, for_all_users |-> for_all_users ]

When(cond, call) == IF cond THEN << call >> ELSE << >>

\* WorkflowView.process_lock_options_on_init: the helper calls it makes, in
\* order, when none raises.
process_lock_options_on_init(has_active_role, options, step_complete, workflow_complete, lock_when_finished) ==
    IF ~has_active_role
    THEN << >>
    ELSE When("release_workflow_lock_on_init" \in options,
              LockCall("release", "workflow", FALSE))
         \o When("release_resource_lock_on_init" \in options,
                 LockCall("release", "resource", FALSE))
         \o When(~step_complete /\ "workflow_lock_required" \in options,
                 LockCall("acquire", "workflow", FALSE))
         \o When(~step_complete /\ "resource_lock_required" \in options,
                 LockCall("acquire", "resource", FALSE))
         \o When(workflow_complete /\ lock_when_finished,
                 LockCall("acquire", "workflow", TRUE))

\* WorkflowView.process_lock_options_after_submission
process_lock_options_after_submission(options, step_complete, workflow_complete, lock_when_finished) ==
    When(step_complete /\ "release_workflow_lock_on_completion" \in options,
         LockCall("release", "workflow", FALSE))
    \o When(step_complete /\ "release_resource_lock_on_completion" \in options,
            LockCall("release", "resource", FALSE))
    \o When(workflow_complete /\ lock_when_finished,
            LockCall("acquire", "workflow", TRUE))

\* JobStepMWV.process_lock_options_on_init: bypassed when a lock on submit is
\* requested.
job_process_lock_options_on_init(has_active_role, options, step_complete, workflow_complete, lock_when_finished) ==
    IF has_active_role /\ options \cap OnJobSubmitLockOptions = {}
    THEN process_lock_options_on_init(has_active_role, options, step_complete,
                                      workflow_complete, lock_when_finished)
    ELSE << >>

\* JobStepMWV.process_lock_options_after_submission: bypassed when an unlock
\* on job completion is requested.
job_process_lock_options_after_submission(options, step_complete, workflow_complete, lock_when_finished) ==
    IF options \cap OnJobCompleteUnlockOptions = {}
    THEN process_lock_options_after_submission(options, step_complete,
                                               workflow_complete, lock_when_finished)
    ELSE << >>

\* The helper calls run one after the other on the lock holders; a call that
\* raises ends the processing, what was committed before it stays.
RECURSIVE run_lock_calls(_, _, _, _)
run_lock_calls(locks, actor, calls, attempted) ==
    IF calls = << >>
    THEN [ locks |-> locks, attempted |-> attempted, out |-> "ok" ]
    ELSE LET c == Head(calls)
         IN  IF "UserLockMixin" \notin ModuleNames
             THEN [ locks |-> locks, attempted |-> Append(attempted, c),
                    out |-> "NameError" ]
             ELSE LET r == IF c.kind = "acquire"
                           THEN acquire_user_lock(locks[c.lockable], actor, c.for_all_users)
                           ELSE release_user_lock(locks[c.lockable], actor)
                  IN  run_lock_calls([ locks EXCEPT ![c.lockable] = r.holder ], actor,
                                     Tail(calls), Append(attempted, c))

\* The options a view reads in a phase.
OptionsRead(view, phase) ==
    IF phase = "init"
    THEN OnInitOptions \cup (IF view = "JobStepMWV" THEN OnJobSubmitLockOptions ELSE {})
    ELSE OnCompletionOptions
            \cup (IF view = "JobStepMWV" THEN OnJobCompleteUnlockOptions ELSE {})

\* One run of the lock option processing of a view for the step at position
\* i: on view initialisation (phase "init") or after submission.
ProcessLockOptions(view, phase, i, actor, has_active_role, options, lock_when_finished) ==
    LET step_complete == complete(steps[i])
        workflow_complete == get_status(steps) \in COMPLETE_STATUSES
        calls ==
            IF phase = "init"
            THEN IF view = "JobStepMWV"
                 THEN job_process_lock_options_on_init(has_active_role, options,
                        step_complete, workflow_complete, lock_when_finished)
                 ELSE process_lock_options_on_init(has_active_role, options,
                        step_complete, workflow_complete, lock_when_finished)
            ELSE IF view = "JobStepMWV"
                 THEN job_process_lock_options_after_submission(options,
                        step_complete, workflow_complete, lock_when_finished)
                 ELSE process_lock_options_after_submission(options,
                        step_complete, workflow_complete, lock_when_finished)
        r == run_lock_calls(user_lock, actor, calls, << >>)
    IN  /\ user_lock' = r.locks
        /\ last' = [ op |-> "process_lock_options", view |-> view, phase |-> phase,
                     step |-> i, actor |-> actor, flag |-> has_active_role,
                     options |-> options, lock_when_finished |-> lock_when_finished,
                     calls |-> calls, attempted |-> r.attempted, out |-> r.out ]
        /\ UNCHANGED <<steps, jobs, dag, built, done, executed, manager, sessions, resource>>

\* A workflow of NumLockSteps steps, nothing locked.
InitLockOptions ==
    /\ steps = [ k \in 1..NumLockSteps |-> NewStep ]
    /\ InitOthers

NextLockOptions ==
    \/ \E i \in 1..Len(steps), v \in { STATUS_PENDING, STATUS_COMPLETE } : SetStatus(i, v)
    \/ \E view \in StepViews, phase \in { "init", "submitted" }, i \in 1..Len(steps),
          r \in BOOLEAN, f \in BOOLEAN :
            \E o \in SUBSET OptionsRead(view, phase) :
                ProcessLockOptions(view, phase, i, "alice", r, o, f)

SpecLockOptions == InitLockOptions /\ [][NextLockOptions]_vars

(***************************************************************************)
(* Claims about the lock option processing.                                *)
(***************************************************************************)
ForAllAcquire == LockCall("acquire", "workflow", TRUE)

\* The positions in a sequence of helper calls of the calls of one kind that
\* are not the lock for all users.
CallsOfKind(calls, kind) ==
    { n \in 1..Len(calls) : calls[n].kind = kind /\ ~calls[n].for_all_users }

\* C17: whenever lock option processing runs for a step (on initialisation
\* or after submission, in any step view, with any step lock options) while
\* the workflow is complete and marked lock_when_finished, the acquire for
\* all users is attempted and is the last helper call of the processing, and
\* the workflow is locked for all users when the processing ends.
C17_LockWhenFinishedIsLast ==
    [][ ( /\ last'.op = "process_lock_options"
          /\ get_status(steps) \in COMPLETE_STATUSES
          /\ last'.lock_when_finished ) =>
            /\ Len(last'.attempted) >= 1
            /\ last'.attempted[Len(last'.attempted)] = ForAllAcquire
            /\ user_lock'["workflow"] = LOCKED_FOR_ALL_USERS ]_vars

\* In the order the methods make their calls, the acquire for all users
\* comes after every release and every other acquire.
C17_ForAllAcquireOrderedLast ==
    [][ last'.op = "process_lock_options" =>
            \A n \in 1..Len(last'.calls) :
                last'.calls[n] = ForAllAcquire => n = Len(last'.calls) ]_vars

\* C18: on step entry (WorkflowView.process_lock_options_on_init for an
\* actor with the active role) every configured release is attempted before
\* any configured acquire, both only when the step is not complete: for a
\* complete step no release and no acquire of the pair is attempted, for any
\* other step each configured release and acquire is attempted, releases
\* first.
C18_ReleaseThenAcquireIfNotComplete ==
    [][ ( /\ last'.op = "process_lock_options"
          /\ last'.view = "WorkflowView" /\ last'.phase = "init"
          /\ last'.flag ) =>
            LET att == last'.attempted
                opts == last'.options
            IN  IF complete(steps[last'.step])
                THEN CallsOfKind(att, "release") = {} /\ CallsOfKind(att, "acquire") = {}
                ELSE /\ \A l \in Lockables :
                        /\ ("release_" \o l \o "_lock_on_init") \in opts
                                => \E n \in CallsOfKind(att, "release") : att[n].lockable = l
                        /\ (l \o "_lock_required") \in opts
                                => \E n \in CallsOfKind(att, "acquire") : att[n].lockable = l
                     /\ \A r \in CallsOfKind(att, "release"), a \in CallsOfKind(att, "acquire") :
                            r < a ]_vars

\* In the order process_lock_options_on_init makes its calls, every release
\* comes before every acquire, and a complete step has no acquire.
C18_CallsReleaseFirst ==
    [][ (last'.op = "process_lock_options" /\ last'.phase = "init") =>
            /\ \A r \in CallsOfKind(last'.calls, "release"),
                  a \in CallsOfKind(last'.calls, "acquire") : r < a
            /\ complete(steps[last'.step]) => CallsOfKind(last'.calls, "acquire") = {} ]_vars

\* The workflow, or its resource, is locked for the actor: held by another
\* actor, or locked for all users.
LockedForActor(locks, actor) ==
    \E l \in Lockables :
        \/ locks[l] \in Actors /\ locks[l] # actor
        \/ locks[l] = LOCKED_FOR_ALL_USERS

\* C19: workflow_locked_for_request_user is true exactly when the workflow
\* or its resource is locked by a holder other than the requesting actor or
\* for all users; so is_read_only is true for an actor, active role or not,
\* whenever another actor holds the lock.
C19_LockStateExposed ==
    \A actor \in Actors :
        /\ workflow_locked_for_request_user <=> LockedForActor(user_lock, actor)
        /\ LockedForActor(user_lock, actor) => is_read_only(TRUE)

(***************************************************************************)
(* The step views' process_step_data: FormInputWV (form_input_wv.py),      *)
(* SpatialInputMWV (spatial_input_mwv.py), TableInputWV                    *)
(* (table_input_wv.py), SetStatusWV (set_status_wv.py) and JobStepMWV      *)
(* (spatial_condor_job_mwv.py).                                            *)
(***************************************************************************)
InputViews ==
    { "FormInputWV", "SpatialInputMWV", "TableInputWV", "SetStatusWV", "JobStepMWV" }

\* What the request carries for the view: usable input, no input at all,
\* input the view cannot convert or parse, or (spatial input) a shapefile.
ViewInputs == { "filled", "empty", "malformed", "shapefile" }

\* step.set_parameter(...) followed by session.commit().
save_parameter(ss, i, value) == [ ss EXCEPT ![i] = set_parameter(ss[i], value) ]

\* The outcome of a view's process_step_data: the committed steps, the check
\* that failed ("none", "input" or "validate") and the response or exception.
Outcome(ss, failed, out) == [ steps |-> ss, failed |-> failed, out |-> out ]

\* A variant that sets the status before it validates.
set_status_then_validate(ss, i, valid, value) ==
    Outcome([ ss EXCEPT ![i] = set_status(ss[i], value) ],
            IF valid THEN "none" ELSE "validate",
            IF valid THEN "none" ELSE "ValueError")

\* step.validate() then step.set_status(value) and session.commit():
\* validate raises ValueError before the status is written.
validate_then_set_status(ss, i, valid, value) ==
    IF valid
    THEN Outcome([ ss EXCEPT ![i] = set_status(ss[i], value) ], "none", "none")
    ELSE Outcome(ss, "validate", "ValueError")

\* super().process_step_data(...): the dirty-triggered reset and the redirect.
super_process_step_data(ss, i, post) ==
    Outcome(process_step_data(ss, i), "none", next_or_previous_redirect(post))

\* FormInputWV.process_step_data
form_process_step_data(ss, i, post, input, valid) ==
    IF input = "malformed"
    THEN Outcome(ss, "input", "ValueError")
    ELSE LET v == validate_then_set_status(save_parameter(ss, i, ParamEntered), i,
                                           valid, STATUS_COMPLETE)
         IN  IF v.failed # "none" THEN v ELSE super_process_step_data(v.steps, i, post)

\* SpatialInputMWV.process_step_data
spatial_process_step_data(ss, i, post, input, valid) ==
    IF input = "empty"
    THEN IF post = "previous-submit"
         THEN Outcome(ss, "none", "redirect_previous")
         ELSE Outcome(save_parameter(ss, i, ParamInitial), "input", "ValueError")
    ELSE IF input = "malformed"
    THEN Outcome(ss, "input", "ValueError")
    ELSE LET v == validate_then_set_status(save_parameter(ss, i, ParamEntered), i,
                                           valid, STATUS_COMPLETE)
         IN  IF v.failed # "none" THEN v
             ELSE IF input = "shapefile"
                  THEN Outcome(v.steps, "none", "redirect_current")
                  ELSE super_process_step_data(v.steps, i, post)

\* TableInputWV.process_step_data: validates only when going to the next step.
table_process_step_data(ss, i, post, input, valid) ==
    IF input = "malformed"
    THEN Outcome(ss, "input", "ValueError")
    ELSE LET saved == save_parameter(save_parameter(ss, i, ParamInitial), i, ParamEntered)
             v == IF post = "next-submit"
                  THEN validate_then_set_status(saved, i, valid, STATUS_COMPLETE)
                  ELSE Outcome(saved, "none", "none")
         IN  IF v.failed # "none" THEN v ELSE super_process_step_data(v.steps, i, post)

\* SetStatusWV.process_step_data: the status posted is required and must be
\* one of the step's valid statuses.
set_status_process_step_data(ss, i, post, input, valid) ==
    IF input = "empty"
    THEN Outcome(ss, "input", "ValueError")
    ELSE IF input = "malformed"
    THEN Outcome(ss, "input", "RuntimeError")
    ELSE LET v == validate_then_set_status(save_parameter(ss, i, ParamEntered), i,
                                           valid, STATUS_COMPLETE)
         IN  IF v.failed # "none" THEN v ELSE super_process_step_data(v.steps, i, post)

\* A variant that lets the user pass a step that is not COMPLETE by marking
\* it COMPLETE.
job_process_step_data_completing(ss, i, post, input, valid) ==
    IF post = "next-submit" /\ ~valid
    THEN Outcome(ss, "validate", "ValueError")
    ELSE super_process_step_data([ ss EXCEPT ![i] = set_status(ss[i], STATUS_COMPLETE) ],
                                 i, post)

\* A variant that holds the user back only while the job is running.
job_process_step_data_waiting_only(ss, i, post, input, valid) ==
    IF post = "next-submit" /\ ~valid
    THEN Outcome(ss, "validate", "ValueError")
    ELSE IF post = "next-submit" /\ ss[i].status = STATUS_WORKING
    THEN Outcome(ss, "none", "redirect_current")
    ELSE super_process_step_data(ss, i, post)

\* JobStepMWV.process_step_data: going to the next step validates and needs
\* a COMPLETE step; nothing is written before the parent's processing.
job_process_step_data(ss, i, post, input, valid) ==
    IF post = "next-submit" /\ ~valid
    THEN Outcome(ss, "validate", "ValueError")
    ELSE IF post = "next-submit" /\ ss[i].status # STATUS_COMPLETE
    THEN Outcome(ss, "none", "redirect_current")
    ELSE super_process_step_data(ss, i, post)

view_process_step_data(view, ss, i, post, input, valid) ==
    CASE view = "FormInputWV"     -> form_process_step_data(ss, i, post, input, valid)
      [] view = "SpatialInputMWV" -> spatial_process_step_data(ss, i, post, input, valid)
      [] view = "TableInputWV"    -> table_process_step_data(ss, i, post, input, valid)
      [] view = "SetStatusWV"     -> set_status_process_step_data(ss, i, post, input, valid)
      [] view = "JobStepMWV"      -> job_process_step_data(ss, i, post, input, valid)

\* save_step_data of a step view for a request on the step at position i.
ViewSaveStepData(view, i, post, input, valid) ==
    LET r == IF post = "reset-submit"
             THEN Outcome(reset_next_steps(steps, i, TRUE), "none", "redirect_current")
             ELSE view_process_step_data(view, steps, i, post, input, valid)
    IN  /\ steps' = r.steps
        /\ last' = [ op |-> "view_save_step_data", view |-> view, step |-> i,
                     failed |-> r.failed, out |-> r.out ]
        /\ OthersUnchanged

\* A workflow of NumViewSteps steps, all never visited.
InitViews ==
    /\ steps = [ k \in 1..NumViewSteps |-> NewStep ]
    /\ InitOthers

NextViews ==
    \/ \E i \in 1..Len(steps), v \in { STATUS_PENDING, STATUS_COMPLETE } : SetStatus(i, v)
    \/ \E view \in InputViews, i \in 1..Len(steps), p \in PostKeys,
          input \in ViewInputs, valid \in BOOLEAN :
            ViewSaveStepData(view, i, p, input, valid)

SpecViews == InitViews /\ [][NextViews]_vars

\* C20: in every step view, when step.validate() or the view's input check
\* fails while the submitted data is processed, the ROOT status of the step
\* is what it was before the request, no later step is changed, and the
\* response is not a redirect to the next step.
C20_ValidationErrorBlocksAdvancement ==
    [][ (last'.op = "view_save_step_data" /\ last'.failed # "none") =>
            /\ steps'[last'.step].status = steps[last'.step].status
            /\ \A k \in get_next_steps(steps, last'.step) : steps'[k] = steps[k]
            /\ last'.out \in { "ValueError", "RuntimeError" } ]_vars

\* A request on the first step whose parameters were saved and then failed
\* validation: the step is still PENDING and dirty, the later step is still
\* COMPLETE.
C20_Witness ==
    /\ last.op = "view_save_step_data"
    /\ last.failed = "validate"
    /\ last.step = 1
    /\ steps[1].status = STATUS_PENDING
    /\ steps[1].parameters = ParamEntered
    /\ steps[1].dirty
    /\ steps[2].status = STATUS_COMPLETE

C21_FailedRunHasNoSideEffect ==
    [][ (last'.op = "run_job" /\ last'.out \in { "RuntimeError", "TypeError", "NameError" })
        => /\ last'.effects = << >>
           /\ steps' = steps /\ user_lock' = user_lock /\ executed' = executed ]_vars

\* Where the constructor call to bind, the check of the mutually exclusive
\* lock options would be reached only after the parameter file is written
\* and prepare() has saved the scheduler job and its nodes.
C21_LockConflictCheckedAfterPrepare ==
    \A o \in SUBSET LockOnSubmitOptions :
        lock_options_conflict(o) =>
            LET t == run_job_trace(TRUE, TRUE, TRUE, o)
            IN  t.out = "RuntimeError" /\ Len(t.effects) = 3

(***************************************************************************)
(* A reset followed statement by statement: save_step_data on reset-submit *)
(* and WorkflowView.process_step_data on a dirty step (workflow_view.py)   *)
(* run the loop of TethysWorkflow.reset_next_steps (workflow.py) in the    *)
(* request's session and commit once, after the loop.                      *)
(***************************************************************************)
ResetKinds == { "reset-submit", "next-submit", "previous-submit" }

\* The positions the loop of reset_next_steps visits, in order, then the
\* current step when it is included.
RECURSIVE positions_from(_, _)
positions_from(k, n) == IF k > n THEN << >> ELSE << k >> \o positions_from(k + 1, n)

\* A variant of process_step_data that resets the later steps without looking
\* at the dirty flag.
reset_positions_ignoring_dirty(ss, i, kind) ==
    IF kind = "reset-submit"
    THEN positions_from(i + 1, Len(ss)) \o << i >>
    ELSE positions_from(i + 1, Len(ss))

reset_positions(ss, i, kind) ==
    IF kind = "reset-submit"
    THEN positions_from(i + 1, Len(ss)) \o << i >>
    ELSE IF ss[i].dirty THEN positions_from(i + 1, Len(ss)) ELSE << >>

\* A variant of the loop body that commits after each step it resets.
after_reset_of_committing(stored, working, k) == working

\* What is committed once the loop body has handled position k: the loop
\* makes no commit, the committed steps stay as they were.
after_reset_of(stored, working, k) == stored

\* One pass of the loop body in the session: the step at position k is reset
\* when it is the current step or its ROOT status is not PENDING.
reset_in_session(working, i, k) ==
    IF k = i \/ working[k].status # STATUS_PENDING
    THEN [ working EXCEPT ![k] = reset(working[k]) ]
    ELSE working

AtomicUnchanged == UNCHANGED <<user_lock, jobs, dag, built, done, executed, manager, resource>>

\* The request reaches the reset: the session holds the steps as loaded.
ResetBegin(i, kind) ==
    /\ sessions.user.phase = "idle"
    /\ sessions' = [ sessions EXCEPT !.user =
            [ phase |-> "resetting", kind |-> kind, step |-> i, working |-> steps,
              todo |-> reset_positions(steps, i, kind), handled |-> 0, resets |-> 0 ] ]
    /\ last' = [ op |-> "reset_begin", step |-> i, kind |-> kind, handled |-> 0,
                 resets |-> 0, out |-> "none" ]
    /\ UNCHANGED steps
    /\ AtomicUnchanged

\* One pass of the loop of reset_next_steps (or the reset of the current
\* step that follows it).
ResetOne ==
    /\ sessions.user.phase = "resetting"
    /\ sessions.user.todo # << >>
    /\ LET u == sessions.user
           k == Head(u.todo)
           w == reset_in_session(u.working, u.step, k)
           n == IF w = u.working THEN u.resets ELSE u.resets + 1
       IN  /\ sessions' = [ sessions EXCEPT !.user =
                    [ u EXCEPT !.working = w, !.todo = Tail(u.todo),
                               !.handled = u.handled + 1, !.resets = n ] ]
           /\ steps' = after_reset_of(steps, w, k)
           /\ last' = [ op |-> "reset_one", step |-> u.step, kind |-> u.kind,
                        handled |-> u.handled + 1, resets |-> n, out |-> "none" ]
    /\ AtomicUnchanged

\* An exception ends the request before its commit: the session is discarded.
ResetFail ==
    /\ sessions.user.phase = "resetting"
    /\ LET u == sessions.user
       IN  last' = [ op |-> "reset_fail", step |-> u.step, kind |-> u.kind,
                     handled |-> u.handled, resets |-> u.resets, out |-> "exception" ]
    /\ sessions' = [ sessions EXCEPT !.user = Idle ]
    /\ UNCHANGED steps
    /\ AtomicUnchanged

\* The loop is over: process_step_data clears the dirty flag of a dirty step;
\* session.commit() stores the session's steps; the response is a redirect.
ResetCommit ==
    /\ sessions.user.phase = "resetting"
    /\ sessions.user.todo = << >>
    /\ LET u == sessions.user
       IN  /\ steps' = IF u.kind # "reset-submit" /\ u.working[u.step].dirty
                       THEN [ u.working EXCEPT ![u.step].dirty = FALSE ]
                       ELSE u.working
           /\ last' = [ op |-> "reset_commit", step |-> u.step, kind |-> u.kind,
                        handled |-> u.handled, resets |-> u.resets,
                        out |-> IF u.kind = "reset-submit" THEN "redirect_current"
                                ELSE next_or_previous_redirect(u.kind) ]
    /\ sessions' = [ sessions EXCEPT !.user = Idle ]
    /\ AtomicUnchanged

\* A workflow of NumAtomicSteps steps, all never visited, no session open.
InitAtomic ==
    /\ steps = [ k \in 1..NumAtomicSteps |-> NewStep ]
    /\ InitOthers

\* Steps are completed and edited between requests.
NextAtomic ==
    \/ \E i \in 1..Len(steps), v \in { STATUS_COMPLETE, STATUS_WORKING } :
            sessions.user.phase = "idle" /\ SetStatus(i, v)
    \/ \E i \in 1..Len(steps) : sessions.user.phase = "idle" /\ SetParameter(i)
    \/ \E i \in 1..Len(steps), kind \in ResetKinds : ResetBegin(i, kind)
    \/ ResetOne
    \/ ResetFail
    \/ ResetCommit

SpecAtomic == InitAtomic /\ [][NextAtomic]_vars

\* C22: a reset commits as one unit or not at all. While the loop of
\* reset_next_steps runs, and when the request fails part-way, the committed
\* steps do not change; the commit that ends the request stores every reset
\* selected by reset_next_steps (and of the current step on reset-submit)
\* at once.
C22_ResetCommitsAsOneUnit ==
    [][ /\ last'.op \in { "reset_begin", "reset_one", "reset_fail" } => steps' = steps
        /\ last'.op = "reset_commit" =>
              steps' = IF last'.kind = "reset-submit"
                       THEN reset_next_steps(steps, last'.step, TRUE)
                       ELSE process_step_data(steps, last'.step) ]_vars

\* A reset-submit on the first step has committed at once the reset of the
\* first step and of both later steps, each of which it changed.
C22_Witness ==
    /\ last.op = "reset_commit"
    /\ last.kind = "reset-submit"
    /\ last.step = 1
    /\ last.resets = NumAtomicSteps
    /\ \A k \in 1..Len(steps) : steps[k] = NewStep

\* A request that failed after two steps were reset in its session: the
\* committed steps are all still COMPLETE.
C22_WitnessFailure ==
    /\ last.op = "reset_fail"
    /\ last.resets = 2
    /\ \A k \in 1..Len(steps) : steps[k].status = STATUS_COMPLETE

(***************************************************************************)
(* A workflow that ends in a job step: form input steps (FormInputWV)      *)
(* followed by one job step (JobStepMWV), the job reporting its status     *)
(* from outside the request cycle.                                         *)
(***************************************************************************)
JobStepAt == NumWorkingSteps

\* JobStepMWV.on_get_step: a step that is not PENDING is answered with the
\* jobs table; nothing is written.
OnGetStep(i) ==
    /\ last' = [ op |-> "on_get_step", step |-> i, flag |-> FALSE,
                 out |-> IF steps[i].status # STATUS_PENDING
                         THEN "jobs_table" ELSE "none" ]
    /\ UNCHANGED steps
    /\ OthersUnchanged

InitWorking ==
    /\ steps = [ k \in 1..NumWorkingSteps |-> NewStep ]
    /\ InitOthers

NextWorking ==
    \/ \E v \in WrittenStatuses : SetStatus(JobStepAt, v)
    \/ \E i \in 1..(JobStepAt - 1), p \in PostKeys, input \in { "filled", "malformed" },
          valid \in BOOLEAN : ViewSaveStepData("FormInputWV", i, p, input, valid)
    \/ \E p \in PostKeys, valid \in BOOLEAN :
            ViewSaveStepData("JobStepMWV", JobStepAt, p, "filled", valid)
    \/ \E p \in { "run-submit", "rerun-submit" }, r \in BOOLEAN :
            RunJob(JobStepAt, r, p, TRUE, TRUE, {})
    \/ OnGetStep(JobStepAt)

SpecWorking == InitWorking /\ [][NextWorking]_vars

\* A navigation request on the job step at position k (next-submit,
\* previous-submit or a view of the jobs table).
NavigationOn(k) ==
    \/ \E p \in { "next-submit", "previous-submit" }, input \in ViewInputs,
          valid \in BOOLEAN : ViewSaveStepData("JobStepMWV", k, p, input, valid)
    \/ OnGetStep(k)

NavigationKeepsWorking ==
    \A k \in 1..Len(steps) :
        (steps[k].status = STATUS_WORKING /\ NavigationOn(k))
            => steps'[k].status = STATUS_WORKING

\* C23 as stated: a WORKING step leaves WORKING only by an external status
\* update or by a reset or rerun request of the user on that step, and no
\* navigation request on the job step changes a WORKING status.
C23_WorkingUntilUpdateResetOrRerun ==
    [][ /\ \A k \in 1..Len(steps) :
              (steps[k].status = STATUS_WORKING /\ steps'[k].status # STATUS_WORKING)
                  => \/ last'.op = "set_status"
                     \/ last'.op \in { "view_save_step_data", "run_job" } /\ last'.step = k
        /\ NavigationKeepsWorking ]_vars

\* C23 amended: a WORKING step leaves WORKING only by an external status
\* update, by a reset or rerun request on that step, or by a request on an
\* earlier step whose reset of the later steps reaches it; no navigation
\* request on the job step changes a WORKING status.
C23_WorkingUntilUpdateOrReset ==
    [][ /\ \A k \in 1..Len(steps) :
              (steps[k].status = STATUS_WORKING /\ steps'[k].status # STATUS_WORKING)
                  => \/ last'.op = "set_status"
                     \/ last'.op \in { "view_save_step_data", "run_job" } /\ last'.step = k
                     \/ /\ last'.op = "view_save_step_data" /\ last'.step < k
                        /\ steps'[k] = reset(steps[k])
        /\ NavigationKeepsWorking ]_vars

\* The job step is WORKING after a request of the user on it that was told
\* to wait for the job.
C23_Witness ==
    /\ last.op = "view_save_step_data"
    /\ last.view = "JobStepMWV"
    /\ last.step = JobStepAt
    /\ last.out = "redirect_current"
    /\ steps[JobStepAt].status = STATUS_WORKING

(***************************************************************************)
(* The status-reporting job executables (job_executables/):                *)
(* upload_to_db_executable.py, geoserver_layers_executable.py and          *)
(* update_resource_status.py. A run fails at none (0) or at one of its     *)
(* statements; resource holds what the run has committed when it ends.     *)
(***************************************************************************)
STATUS_PROCESSING == "PROCESSING"
STATUS_SUCCESS == "SUCCESS"
OK_STATUSES == { STATUS_SUCCESS, STATUS_COMPLETE }

ResourceStatuses ==
    { STATUS_NONE, STATUS_PENDING, STATUS_PROCESSING, STATUS_SUCCESS, STATUS_ERROR,
      STATUS_FAILED }

UploadKeys == { "upload", "upload_gs" }

Ended(res, out) == [ resource |-> res, out |-> out ]

\* upload_to_db_executable.run: 1 fails while the resource is loaded, 2 while
\* the archive is extracted, 3 and later while the model is uploaded. The handler of
\* the exception writes ERROR only when the resource was loaded, and raises.
upload_to_db(res, status_key, fail_at) ==
    IF fail_at = 1
    THEN Ended(res, "raised")
    ELSE IF fail_at >= 2
    THEN Ended([ res EXCEPT ![status_key] = STATUS_ERROR ], "raised")
    ELSE Ended([ res EXCEPT ![status_key] = STATUS_SUCCESS ], "exit_0")

\* geoserver_layers_executable.run: 1 fails while the engines are set up and
\* the archive is extracted, 2 while the resource is loaded, 3 and later
\* while the layers are created.
geoserver_layers(res, status_key, fail_at) ==
    IF fail_at \in { 1, 2 }
    THEN Ended(res, "raised")
    ELSE IF fail_at >= 3
    THEN Ended([ res EXCEPT ![status_key] = STATUS_ERROR ], "raised")
    ELSE Ended([ res EXCEPT ![status_key] = STATUS_SUCCESS ], "exit_0")

\* update_resource_status.run(workflow, ...): 1 fails while the resource is
\* loaded, 2 while the upload statuses are read, 3 at the commit. Every
\* exception is written to stderr and swallowed.
update_resource_status(res, workflow, fail_at) ==
    LET status_success ==
            /\ workflow = "upload"
            /\ res["upload"] \in OK_STATUSES
            /\ res["upload_gs"] \in OK_STATUSES
    IN  IF fail_at # 0
        THEN Ended(res, "exit_0")
        ELSE Ended([ res EXCEPT !["root"] =
                        IF status_success THEN STATUS_SUCCESS ELSE STATUS_FAILED ],
                   "exit_0")

\* The upstream runs update_resource_status reports on did not all succeed.
upstream_failed(res, workflow) ==
    ~( /\ workflow = "upload"
       /\ res["upload"] \in OK_STATUSES
       /\ res["upload_gs"] \in OK_STATUSES )

ExecUnchanged ==
    UNCHANGED <<steps, user_lock, jobs, dag, built, done, executed, manager, sessions>>

\* One run of upload_to_db or geoserver_layers on the key it is given.
RunStatusExecutable(exe, status_key, fail_at) ==
    LET r == IF exe = "upload_to_db"
             THEN upload_to_db(resource, status_key, fail_at)
             ELSE geoserver_layers(resource, status_key, fail_at)
    IN  /\ resource' = r.resource
        /\ last' = [ op |-> "run_executable", exe |-> exe, key |-> status_key,
                     fail_at |-> fail_at, failed |-> fail_at # 0, out |-> r.out ]
        /\ ExecUnchanged

\* One run of update_resource_status, responsible for the ROOT key.
RunUpdateResourceStatus(workflow, fail_at) ==
    LET r == update_resource_status(resource, workflow, fail_at)
    IN  /\ resource' = r.resource
        /\ last' = [ op |-> "run_executable", exe |-> "update_resource_status",
                     key |-> "root", fail_at |-> fail_at,
                     failed |-> fail_at # 0 \/ upstream_failed(resource, workflow),
                     out |-> r.out ]
        /\ ExecUnchanged

\* The resource as a new upload starts it: the creating request marks the
\* keys PENDING before the jobs run.
MarkPending ==
    /\ resource' = [ k \in DOMAIN resource |-> STATUS_PENDING ]
    /\ last' = [ op |-> "mark_pending", exe |-> "none", key |-> "none", fail_at |-> 0,
                 failed |-> FALSE, out |-> "none" ]
    /\ ExecUnchanged

InitExec ==
    /\ steps = << >>
    /\ InitOthers

NextExec ==
    \/ \E exe \in { "upload_to_db", "geoserver_layers" }, k \in UploadKeys,
          f \in 0..MaxFaultPoint : RunStatusExecutable(exe, k, f)
    \/ \E w \in { "upload", "other" }, f \in 0..MaxFaultPoint :
            RunUpdateResourceStatus(w, f)
    \/ MarkPending

SpecExec == InitExec /\ [][NextExec]_vars

\* C24: whenever a status-reporting executable terminates after a failure,
\* the status key it is responsible for is committed as ERROR or FAILED.
C24_FailureSurfacedInLedger ==
    [][ (last'.op = "run_executable" /\ last'.failed)
            => resource'[last'.key] \in { STATUS_ERROR, STATUS_FAILED } ]_vars

\* A run of upload_to_db or geoserver_layers that fails once the resource is
\* loaded commits ERROR on its key, and update_resource_status that ends
\* without an exception after an upstream failure commits FAILED on ROOT.
C24_FailureAfterLoadSurfaced ==
    [][ /\ ( /\ last'.op = "run_executable"
             /\ \/ last'.exe = "upload_to_db" /\ last'.fail_at >= 2
                \/ last'.exe = "geoserver_layers" /\ last'.fail_at >= 3 )
            => resource'[last'.key] = STATUS_ERROR
        /\ ( /\ last'.op = "run_executable"
             /\ last'.exe = "update_resource_status"
             /\ last'.failed /\ last'.fail_at = 0 )
            => resource'["root"] = STATUS_FAILED ]_vars

\* A failed run of geoserver_layers has ended with its key still PENDING.
C24_FailureLeftPending ==
    /\ last.op = "run_executable"
    /\ last.exe = "geoserver_layers"
    /\ last.failed
    /\ resource[last.key] = STATUS_PENDING

\* update_resource_status has swallowed an exception and ended normally with
\* the ROOT key still PENDING.
C24_FailureSwallowed ==
    /\ last.op = "run_executable"
    /\ last.exe = "update_resource_status"
    /\ last.fail_at # 0
    /\ last.out = "exit_0"
    /\ resource["root"] = STATUS_PENDING

(***************************************************************************)
(* The argument vectors WorkflowCondorJobManager gives to the job nodes    *)
(* (condor_workflow_manager.py, __init__ and prepare).                     *)
(***************************************************************************)
\* self.job_args as the constructor first builds it.
FixedArgs ==
    << "db_url", "workflow_id", "step_id", "gs_private_url", "gs_public_url",
       "workflow_class" >>

CustomArgs == { "x", "y" }

\* Paths of input files, as their components.
InputPaths == { << "workspace", "workflow_params.json" >>, << "in.txt" >> }

\* The characters of an 'arguments' attribute.
ArgChars == { "a", " " }

BoundedSeq(S, n) == UNION { [ 1..m -> S ] : m \in 0..n }

\* os.path.split(input_file)[1]
basename(path) == path[Len(path)]

basenames(paths) == [ k \in 1..Len(paths) |-> basename(paths[k]) ]

\* str.split(): the maximal runs of characters that are not blank.
RECURSIVE split_from(_, _, _)
split_from(chars, k, cur) ==
    IF k > Len(chars)
    THEN IF cur = "" THEN << >> ELSE << cur >>
    ELSE IF chars[k] = " "
    THEN (IF cur = "" THEN << >> ELSE << cur >>) \o split_from(chars, k + 1, "")
    ELSE split_from(chars, k + 1, cur \o chars[k])

split(chars) == split_from(chars, 1, "")

\* The constructor: the fixed arguments, then the custom arguments.
init_job_args(custom_job_args) == FixedArgs \o custom_job_args

\* prepare(): the basename of every input file is appended to self.job_args
\* before the jobs are visited.
prepared_job_args(m) == m.job_args \o basenames(m.input_files)

\* A variant that puts the arguments declared on the job first.
job_arguments_declared_first(job_args, existing_job_args) ==
    (IF existing_job_args # << >> THEN split(existing_job_args) ELSE << >>) \o job_args

\* The arguments prepare() sets on a job: self.job_args, then the arguments
\* the job already declares, split on blanks.
job_arguments(job_args, existing_job_args) ==
    job_args \o (IF existing_job_args # << >> THEN split(existing_job_args) ELSE << >>)

\* The nodes prepare() leaves, each with its arguments; the finalize node is
\* given self.job_args.
prepare_with_arguments(m, job_dicts) ==
    LET nodes == prepare(job_dicts)
        ja == prepared_job_args(m)
    IN  [ k \in 1..Len(nodes) |->
            [ name |-> nodes[k].name, parents |-> nodes[k].parents,
              finalize |-> nodes[k].finalize,
              arguments |-> IF nodes[k].finalize THEN ja
                            ELSE job_arguments(ja, job_dicts[k].arguments) ] ]

\* prepare() of a manager whose jobs declare arguments.
PrepareArguments ==
    /\ built = "new"
    /\ LET r == construct_and_prepare(manager, jobs)
       IN  /\ built' = r.built
           /\ dag' = IF r.built = "prepared"
                     THEN prepare_with_arguments(manager, jobs) ELSE dag
           /\ manager' = IF r.built = "prepared"
                         THEN [ r.manager EXCEPT !.job_args = prepared_job_args(manager) ]
                         ELSE r.manager
    /\ UNCHANGED <<jobs, done>>
    /\ DagUnchanged

\* A manager constructed with custom arguments, input files and one or more
\* job descriptors that declare an 'arguments' attribute.
InitArgs ==
    /\ steps = << >>
    /\ last = NoOp
    /\ user_lock = [ l \in Lockables |-> UNLOCKED ]
    /\ jobs \in UNION { [ 1..n -> [ name : { "a" }, parents : { {} },
                                   arguments : BoundedSeq(ArgChars, MaxArgChars) ] ] :
                        n \in 1..MaxArgJobs }
    /\ dag = << >>
    /\ built = "new"
    /\ done = {}
    /\ executed = {}
    /\ \E custom \in BoundedSeq(CustomArgs, MaxCustomArgs),
          files \in BoundedSeq(InputPaths, MaxInputFiles) :
            manager = [ jobs_callback |-> FALSE, workflows_saved |-> 0, nodes_saved |-> 0,
                        custom_job_args |-> custom, input_files |-> files,
                        job_args |-> init_job_args(custom) ]
    /\ sessions = NoSessions
    /\ resource = NewResource

NextArgs == PrepareArguments

SpecArgs == InitArgs /\ [][NextArgs]_vars

\* C25: every job node of a prepared submission, the finalize node included,
\* has an argument vector that begins with the fixed leading arguments in
\* their order: store connection string, workflow id, step id, private and
\* public service endpoint URL, workflow class path.
C25_FixedLeadingArguments ==
    built = "prepared" =>
        \A k \in 1..Len(dag) :
            /\ Len(dag[k].arguments) >= Len(FixedArgs)
            /\ SubSeq(dag[k].arguments, 1, Len(FixedArgs)) = FixedArgs

\* A prepared submission whose job declares arguments and whose manager has
\* a custom argument and an input file.
C25_Witness ==
    /\ built = "prepared"
    /\ Len(dag) = 2
    /\ dag[2].finalize
    /\ split(jobs[1].arguments) # << >>
    /\ manager.custom_job_args # << >>
    /\ manager.input_files # << >>

\* C26: after the fixed leading arguments each job's vector lists the
\* custom arguments of the manager and the arguments declared on the job
\* descriptor, and after all of them the basenames of the input files.
C26_ExtrasThenFileBasenames ==
    built = "prepared" =>
        \A k \in 1..Len(jobs) :
            dag[k].arguments =
                FixedArgs \o manager.custom_job_args \o split(jobs[k].arguments)
                    \o basenames(manager.input_files)

\* The order prepare() gives: fixed arguments, custom arguments, basenames
\* of the input files, then the arguments declared on the job descriptor.
C26_DeclaredArgumentsAfterBasenames ==
    built = "prepared" =>
        \A k \in 1..Len(jobs) :
            dag[k].arguments =
                FixedArgs \o manager.custom_job_args \o basenames(manager.input_files)
                    \o split(jobs[k].arguments)

(***************************************************************************)
(* Claims about the nodes _build_job_nodes produces.                       *)
(***************************************************************************)
\* The declared jobs a descriptor names as its parents.
NamedBy(job_dicts, k) ==
    { j \in 1..Len(job_dicts) : job_dicts[j].name \in job_dicts[k].parents }

\* C27: _build_job_nodes produces one node per descriptor, and the parents
\* of each node are exactly the nodes named in the 'parents' list of its
\* descriptor, whatever the order and the names of the descriptors.
C27_ParentsAsDeclared ==
    built = "prepared" =>
        /\ Len(dag) = Len(jobs) + 1
        /\ \A k \in 1..Len(jobs) : dag[k].parents = NamedBy(jobs, k)

\* With descriptors that all have different names, one node per descriptor
\* and the parents of each node exactly the nodes its descriptor names.
C27_ParentsAsDeclaredUniqueNames ==
    ( /\ built = "prepared"
      /\ \A j, k \in 1..Len(jobs) : jobs[j].name = jobs[k].name => j = k )
    => /\ Len(dag) = Len(jobs) + 1
       /\ \A k \in 1..Len(jobs) : dag[k].parents = NamedBy(jobs, k)

\* Two descriptors share the name "a", the first declaring the parent "b"
\* and the second none: the node of the first has no parent.
C27_SharedNameLosesParents ==
    /\ built = "prepared"
    /\ Len(jobs) = 3
    /\ jobs[1].name = "a" /\ jobs[1].parents = { "b" }
    /\ jobs[2].name = "a" /\ jobs[2].parents = {}
    /\ jobs[3].name = "b"
    /\ dag[1].parents = {}

\* A parent name that no descriptor has ends prepare() in KeyError, with no
\* node produced.
C27_UndeclaredParentRaises ==
    /\ built = "KeyError"
    /\ dag = << >>

(***************************************************************************)
(* Claims about the documented progression of the workflow status.         *)
(***************************************************************************)
HasStep(ss, value) == \E k \in 1..Len(ss) : ss[k].status = value

\* C28: in every reachable state the derived status of the workflow is
\* FAILED when a step has failed, ERROR when a step has an error, WORKING
\* when a step is processing (in that order when several apply), and it is
\* CONTINUE only when some step is not complete and no step is ERROR,
\* FAILED or WORKING.
C28_StatusFollowsProgression ==
    LET status == get_status(steps)
    IN  /\ HasStep(steps, STATUS_FAILED) => status = STATUS_FAILED
        /\ (HasStep(steps, STATUS_ERROR) /\ ~HasStep(steps, STATUS_FAILED))
                => status = STATUS_ERROR
        /\ ( /\ HasStep(steps, STATUS_WORKING)
             /\ ~HasStep(steps, STATUS_FAILED)
             /\ ~HasStep(steps, STATUS_ERROR) ) => status = STATUS_WORKING
        /\ status = STATUS_CONTINUE =>
                /\ Incomplete(steps) # {}
                /\ ~HasStep(steps, STATUS_ERROR)
                /\ ~HasStep(steps, STATUS_FAILED)
                /\ ~HasStep(steps, STATUS_WORKING)

\* The first step is complete, the second was reset and a job reported an
\* error on the third: the workflow reads CONTINUE.
C28_ContinueWithErrorStep ==
    /\ StatusesOf(steps) = << STATUS_COMPLETE, STATUS_PENDING, STATUS_ERROR >>
    /\ get_status(steps) = STATUS_CONTINUE

\* A step is processing behind a step never started: the workflow reads
\* PENDING.
C28_PendingWithWorkingStep ==
    /\ StatusesOf(steps) = << STATUS_PENDING, STATUS_WORKING, STATUS_PENDING >>
    /\ get_status(steps) = STATUS_PENDING

\* The derived status is WORKING, ERROR or FAILED exactly when the first
\* step that is not complete has that status.
C28_StatusOfFirstIncompleteStep ==
    \A v \in { STATUS_WORKING, STATUS_ERROR, STATUS_FAILED } :
        get_status(steps) = v <=>
            \E k \in Incomplete(steps) :
                /\ steps[k].status = v
                /\ \A j \in Incomplete(steps) : k <= j

(***************************************************************************)
(* Reads of the workflow status: TethysWorkflow.get_status and             *)
(* get_next_step (workflow.py) called between writes to the steps.         *)
(***************************************************************************)
\* workflow.get_status(): the value is returned, nothing is assigned.
GetStatus ==
    /\ last' = [ op |-> "get_status", step |-> get_next_step(steps).step, flag |-> FALSE,
                 out |-> get_status(steps) ]
    /\ UNCHANGED steps
    /\ OthersUnchanged

\* workflow.get_next_step(): the index and the step are returned.
GetNextStep ==
    /\ last' = [ op |-> "get_next_step", step |-> get_next_step(steps).step,
                 flag |-> FALSE, out |-> "none" ]
    /\ UNCHANGED steps
    /\ OthersUnchanged

ReadStatuses ==
    { STATUS_PENDING, STATUS_WORKING, STATUS_COMPLETE, STATUS_ERROR, STATUS_APPROVED }

NextRead ==
    \/ \E i \in 1..Len(steps), v \in ReadStatuses : SetStatus(i, v)
    \/ \E i \in 1..Len(steps) : SetParameter(i)
    \/ GetStatus
    \/ GetNextStep

SpecRead == InitStatus /\ [][NextRead]_vars

\* Steps that have the ROOT statuses of ss, in the same order, and nothing
\* else of ss.
StatusOnly(ss) == [ k \in 1..Len(ss) |-> [ NewStep EXCEPT !.status = ss[k].status ] ]

\* C29: get_status() and get_next_step() write nothing to the workflow or
\* its steps; two calls of get_status() with no write between them return
\* the same value; the value depends only on the ROOT statuses of the steps
\* and their order.
C29_StatusDerivationIsPureRead ==
    [][ /\ last'.op \in { "get_status", "get_next_step" } =>
              /\ steps' = steps
              /\ UNCHANGED <<user_lock, jobs, dag, built, done, executed, manager,
                             sessions, resource>>
        /\ (last.op = "get_status" /\ last'.op = "get_status") => last'.out = last.out
        /\ last'.op = "get_status" => last'.out = get_status(StatusOnly(steps)) ]_vars

\* The status was read on a workflow whose first step is complete and whose
\* second step, never started, has edited parameters.
C29_Witness ==
    /\ last.op = "get_status"
    /\ last.out = STATUS_CONTINUE
    /\ steps[1].status = STATUS_COMPLETE
    /\ steps[2].dirty
    /\ steps[2].parameters = ParamEntered

(***************************************************************************)
(* Claims about the commit of the lock helpers.                            *)
(***************************************************************************)
\* C30: every call of acquire_lock_and_log or release_lock_and_log attempts
\* its transition on the lock and commits once before it returns, whether
\* the attempt succeeded or failed.
C30_TransitionFollowedByCommit ==
    [][ last'.op \in { "acquire_lock_and_log", "release_lock_and_log" }
            => /\ last'.out \in { "True", "False" }
               /\ last'.commits = 1 ]_vars

\* A call of a helper has ended in NameError with no transition attempted
\* and nothing committed, the lock as another caller left it.
C30_HelperRaisedBeforeCommit ==
    /\ last.op = "acquire_lock_and_log"
    /\ last.out = "NameError"
    /\ last.commits = 0
    /\ user_lock["workflow"] = "bob"

\* No call of a helper changes the lock state.
C30_HelpersChangeNoLock ==
    [][ last'.op \in { "acquire_lock_and_log", "release_lock_and_log" }
            => user_lock' = user_lock ]_vars

(***************************************************************************)
(* Claims about the dirty-triggered reset of process_step_data.            *)
(***************************************************************************)
\* C31: when process_step_data ends for a step whose dirty flag is set, every
\* later step has ROOT status PENDING and the flag of the step is cleared,
\* both stored by the one commit and nothing stored before it; when the flag
\* is not set, the steps are left as they were.
C31_DirtyStepInvalidatesLaterSteps ==
    [][ /\ ( last'.op \in { "reset_begin", "reset_one" }
             /\ last'.kind # "reset-submit" ) => steps' = steps
        /\ ( last'.op = "reset_commit" /\ last'.kind # "reset-submit" ) =>
              LET i == last'.step
              IN  IF steps[i].dirty
                  THEN /\ \A k \in 1..Len(steps) :
                            k > i => steps'[k].status = STATUS_PENDING
                       /\ ~steps'[i].dirty
                       /\ steps'[i] = [ steps[i] EXCEPT !.dirty = FALSE ]
                       /\ \A k \in 1..Len(steps) : k < i => steps'[k] = steps[k]
                  ELSE steps' = steps ]_vars

\* A next-submit on the edited first step has committed the reset of both
\* later steps, which were COMPLETE or WORKING, with its cleared flag.
C31_Witness ==
    /\ last.op = "reset_commit"
    /\ last.kind = "next-submit"
    /\ last.step = 1
    /\ last.resets = 2
    /\ steps[1].parameters = ParamEntered
    /\ ~steps[1].dirty
    /\ \A k \in 2..Len(steps) : steps[k] = NewStep

\* A next-submit on a step that was not edited has committed with the later
\* steps still COMPLETE.
C31_WitnessNotDirty ==
    /\ last.op = "reset_commit"
    /\ last.kind = "next-submit"
    /\ last.step = 1
    /\ last.resets = 0
    /\ \A k \in 2..Len(steps) : steps[k].status = STATUS_COMPLETE

C32_JobReportAfterReset ==
    /\ sessions.user.phase = "closed" /\ sessions.job.phase = "closed"
    /\ sessions.user.kind = "reset-submit"
    /\ sessions.user.step < sessions.job.step
    /\ sessions.user.loaded = STATUS_COMPLETE
    /\ sessions.job.loaded = STATUS_WORKING
    /\ last.op = "job_commit"
    /\ steps[sessions.user.step].status = STATUS_PENDING
    /\ steps[sessions.job.step].status = STATUS_COMPLETE

C33_NoGraphForWorkingStep ==
    [][ ( last'.op = "run_job" /\ steps[last'.step].status = STATUS_WORKING )
            => executed' = executed ]_vars

\* No graph is ever in flight: no request to run_job has submitted one.
C33_NoGraphEverSubmitted == executed = {}

(***************************************************************************)
(* WorkflowView.on_get (workflow_view.py): the gate of a step view.        *)
(***************************************************************************)
\* A variant of the gate that opens the next step only.
on_get_next_step_only(ss, i) ==
    LET real_next_step == get_next_step(ss).step
    IN  IF real_next_step # 0 /\ i # real_next_step
        THEN "redirect_workflow"
        ELSE "on_get_step"

\* WorkflowView.on_get for the step at position i: a redirect to the
\* workflow URL, or the call of the on_get_step hook.
on_get(ss, i) ==
    LET real_next_step == get_next_step(ss).step
    IN  IF real_next_step # 0 /\ i # real_next_step
        THEN IF ss[i].status \notin COMPLETE_STATUSES
             THEN "redirect_workflow"
             ELSE "on_get_step"
        ELSE "on_get_step"

\* A GET request for the step at position i.
OnGet(i) ==
    /\ last' = [ op |-> "on_get", step |-> i,
                 flag |-> on_get(steps, i) = "on_get_step",
                 out |-> on_get(steps, i) ]
    /\ UNCHANGED steps
    /\ OthersUnchanged

NextOnGet ==
    \/ \E i \in 1..Len(steps), v \in ReadStatuses : SetStatus(i, v)
    \/ \E i \in 1..Len(steps) : OnGet(i)

SpecOnGet == InitStatus /\ [][NextOnGet]_vars

\* The step at position i is the first step in order that is not complete.
FirstIncomplete(ss, i) ==
    /\ ~complete(ss[i])
    /\ \A j \in 1..Len(ss) : j < i => complete(ss[j])

\* C34: on_get calls the step hook exactly for a step that is the workflow's
\* next incomplete step or is itself complete; for any other step it
\* redirects to the workflow URL and calls no hook; it writes nothing.
C34_OnlyReachableStepsOpened ==
    [][ last'.op = "on_get" =>
          LET i == last'.step
              reachable == FirstIncomplete(steps, i) \/ complete(steps[i])
          IN  /\ reachable => ( last'.out = "on_get_step" /\ last'.flag )
              /\ ~reachable => ( last'.out = "redirect_workflow" /\ ~last'.flag )
              /\ steps' = steps ]_vars

\* A GET for the last step, in ERROR behind a step that is WORKING, has been
\* redirected to the workflow.
C34_Witness ==
    /\ last.op = "on_get"
    /\ last.step = Len(steps)
    /\ last.out = "redirect_workflow"
    /\ ~last.flag
    /\ steps[1].status = STATUS_COMPLETE
    /\ steps[2].status = STATUS_WORKING
    /\ steps[Len(steps)].status = STATUS_ERROR

\* A GET for a complete step before the next step has been opened.
C34_WitnessCompleteStep ==
    /\ last.op = "on_get"
    /\ last.step = 1
    /\ last.out = "on_get_step"
    /\ steps[1].status = STATUS_APPROVED
    /\ steps[2].status = STATUS_PENDING

(***************************************************************************)
(* The job step view on a workflow with steps after the job step.          *)
(***************************************************************************)
\* A workflow of NumJobViewSteps steps, the first of which is the job step.
InitJobView ==
    /\ steps = [ k \in 1..NumJobViewSteps |-> NewStep ]
    /\ InitOthers

\* Any ledger value is written on any step, the job step is edited, and the
\* user posts to the job step view.
NextJobView ==
    \/ \E i \in 1..Len(steps), v \in Statuses : SetStatus(i, v)
    \/ SetParameter(1)
    \/ \E p \in PostKeys, valid \in BOOLEAN :
            ViewSaveStepData("JobStepMWV", 1, p, "filled", valid)

SpecJobView == InitJobView /\ [][NextJobView]_vars

\* C35: on next-submit the job step view redirects to the next step only if
\* the ROOT status of the step is in the complete-set; for any status outside
\* it the request writes nothing, no status and no reset, and is answered,
\* when step.validate() passes, with a redirect to the same step.
C35_NoAdvancePastUnfinishedJob ==
    [][ ( /\ last'.op = "view_save_step_data"
          /\ last'.view = "JobStepMWV"
          /\ \E valid \in BOOLEAN :
                ViewSaveStepData("JobStepMWV", last'.step, "next-submit", "filled", valid) ) =>
            LET i == last'.step
            IN  /\ last'.out = "redirect_next" => complete(steps[i])
                /\ ~complete(steps[i]) =>
                      /\ steps' = steps
                      /\ last'.out # "redirect_next"
                      /\ last'.failed = "none" => last'.out = "redirect_current" ]_vars

\* A next-submit on the edited job step, whose job FAILED, has been sent back
\* to the step; the COMPLETE step after it has not been reset.
C35_Witness ==
    /\ last.op = "view_save_step_data"
    /\ last.view = "JobStepMWV"
    /\ last.step = 1
    /\ last.out = "redirect_current"
    /\ steps[1].status = STATUS_FAILED
    /\ steps[1].dirty
    /\ steps[2].status = STATUS_COMPLETE

\* A next-submit on a job step whose ROOT status is APPROVED, a status of the
\* complete-set, has been sent back to the step as well.
C35_ApprovedJobStepHeldBack ==
    /\ last.op = "view_save_step_data"
    /\ last.out = "redirect_current"
    /\ steps[1].status = STATUS_APPROVED
    /\ steps[2].status = STATUS_PENDING

(***************************************************************************)
(* Claims about the parameters of a COMPLETE step.                         *)
(***************************************************************************)
\* C36: a COMPLETE step holds parameters that passed its validation: after a
\* request to a form-input, spatial-input or table-input view has stored
\* parameters that step.validate() rejected (or, for spatial input, has
\* stored the empty geometry), the ROOT status of the step is not COMPLETE.
C36_CompleteStepHoldsValidParameters ==
    [][ ( /\ last'.op = "view_save_step_data"
          /\ last'.view \in { "FormInputWV", "SpatialInputMWV", "TableInputWV" }
          /\ \/ /\ last'.failed = "validate"
                /\ steps'[last'.step].parameters = ParamEntered
             \/ /\ last'.view = "SpatialInputMWV"
                /\ last'.failed = "input"
                /\ steps' # steps
                /\ steps'[last'.step].parameters = ParamInitial ) =>
            steps'[last'.step].status # STATUS_COMPLETE ]_vars

\* The form view has stored the values validate() rejected on a step that
\* stays COMPLETE, its later step still COMPLETE.
C36_CompleteWithRejectedParameters ==
    /\ last.op = "view_save_step_data"
    /\ last.view = "FormInputWV"
    /\ last.step = 1
    /\ last.failed = "validate"
    /\ steps[1].status = STATUS_COMPLETE
    /\ steps[1].parameters = ParamEntered /\ steps[1].dirty
    /\ steps[2].status = STATUS_COMPLETE

\* The spatial view has stored the empty geometry on a step that stays
\* COMPLETE.
C36_CompleteWithEmptyGeometry ==
    /\ last.op = "view_save_step_data"
    /\ last.view = "SpatialInputMWV"
    /\ last.failed = "input"
    /\ steps[last.step].status = STATUS_COMPLETE
    /\ steps[last.step].parameters = ParamInitial /\ steps[last.step].dirty

\* A request that validate() rejected never changes the ROOT status of its
\* step: a step that was not COMPLETE is not made COMPLETE by it.
C36_RejectedRequestKeepsStatus ==
    [][ (last'.op = "view_save_step_data" /\ last'.failed = "validate") =>
            steps'[last'.step].status = steps[last'.step].status ]_vars

(***************************************************************************)
(* SetStatusWV (set_status_wv.py) with the status the request posts.       *)
(***************************************************************************)
\* StatusMixin.valid_statuses() of the step: the ledger vocabulary.
valid_statuses == Statuses

\* The 'statuses' option of the set-status steps: the choices offered.
StatusesOption == { STATUS_APPROVED, STATUS_REJECTED }

\* request.POST.get('status'): nothing, a string that is no status, a choice
\* of the option, or a status of the vocabulary that is not a choice.
PostedStatuses == { "", "bogus", STATUS_APPROVED, STATUS_REJECTED, STATUS_ERROR }

\* SetStatusWV.process_step_data for the posted status.
set_status_wv_process_step_data(ss, i, post, status, valid) ==
    IF status = ""
    THEN Outcome(ss, "input", "ValueError")
    ELSE IF status \notin valid_statuses
    THEN Outcome(ss, "input", "RuntimeError")
    ELSE LET v == validate_then_set_status(save_parameter(ss, i, ParamEntered), i,
                                           valid, status)
         IN  IF v.failed # "none" THEN v ELSE super_process_step_data(v.steps, i, post)

\* save_step_data of SetStatusWV for a request on the step at position i.
SetStatusSaveStepData(i, post, status, valid) ==
    LET r == IF post = "reset-submit"
             THEN Outcome(reset_next_steps(steps, i, TRUE), "none", "redirect_current")
             ELSE set_status_wv_process_step_data(steps, i, post, status, valid)
    IN  /\ steps' = r.steps
        /\ last' = [ op |-> "set_status_save_step_data", step |-> i, post |-> post,
                     status |-> status, failed |-> r.failed, out |-> r.out ]
        /\ OthersUnchanged

\* A workflow of NumSetStatusSteps set-status steps, all never visited.
InitSetStatus ==
    /\ steps = [ k \in 1..NumSetStatusSteps |-> NewStep ]
    /\ InitOthers

NextSetStatus ==
    \E i \in 1..Len(steps), p \in PostKeys, st \in PostedStatuses, valid \in BOOLEAN :
        SetStatusSaveStepData(i, p, st, valid)

SpecSetStatus == InitSetStatus /\ [][NextSetStatus]_vars

\* C37: the status of a set-status step is always one of the statuses of its
\* 'statuses' option (or PENDING, never visited): the view writes the posted
\* status only if it is one of the choices, and for a missing status or any
\* other value it raises and writes neither parameters nor status.
C37_StatusIsConfiguredChoice ==
    [][ /\ \A k \in 1..Len(steps) :
              steps'[k].status \in StatusesOption \cup { STATUS_PENDING }
        /\ ( /\ last'.op = "set_status_save_step_data"
             /\ last'.post # "reset-submit"
             /\ last'.status \notin StatusesOption ) =>
               /\ steps' = steps
               /\ last'.out \in { "ValueError", "RuntimeError" } ]_vars

\* A request that posted ERROR, which is not one of the choices, has been
\* answered with the redirect to the next step, ERROR written on its step.
C37_UnconfiguredStatusWritten ==
    /\ last.op = "set_status_save_step_data"
    /\ last.status = STATUS_ERROR
    /\ last.out = "redirect_next"
    /\ steps[last.step].status = STATUS_ERROR
    /\ steps[last.step].parameters = ParamEntered

\* What the view does check: the status written is one of valid_statuses(),
\* and a missing status or a string that is no status raises with nothing
\* written.
C37_StatusIsValidStatus ==
    [][ /\ \A k \in 1..Len(steps) : steps'[k].status \in valid_statuses
        /\ ( /\ last'.op = "set_status_save_step_data"
             /\ last'.post # "reset-submit"
             /\ last'.status \notin valid_statuses ) =>
               /\ steps' = steps
               /\ last'.out \in { "ValueError", "RuntimeError" } ]_vars

(***************************************************************************)
(* TethysWorkflow.complete (models/workflow.py).                           *)
(***************************************************************************)
\* A variant that takes the status of a workflow without steps for complete.
TethysWorkflow_complete_or_none(ss) ==
    get_status(ss) \in COMPLETE_STATUSES \cup { STATUS_NONE }

\* TethysWorkflow.complete
TethysWorkflow_complete(ss) == get_status(ss) \in COMPLETE_STATUSES

\* A read of the property, as process_lock_options_on_init makes it.
ReadComplete ==
    /\ last' = [ op |-> "complete", step |-> 0,
                 flag |-> TethysWorkflow_complete(steps), out |-> get_status(steps) ]
    /\ UNCHANGED steps
    /\ OthersUnchanged

NextComplete ==
    \/ NextStatus
    \/ ReadComplete

SpecComplete == InitWorkflows /\ [][NextComplete]_vars

\* C38: TethysWorkflow.complete is true exactly when the workflow has at
\* least one step and the ROOT status of every step is in the complete-set;
\* it is false when a step is incomplete, the derived status CONTINUE
\* included, and false for a workflow without steps; the read writes nothing.
C38_CompleteIffEveryStepComplete ==
    [][ last'.op = "complete" =>
          /\ last'.flag <=> ( /\ Len(steps) >= 1
                              /\ \A k \in 1..Len(steps) :
                                    steps[k].status \in COMPLETE_STATUSES )
          /\ last'.out = STATUS_CONTINUE => ~last'.flag
          /\ Len(steps) = 0 => ~last'.flag
          /\ steps' = steps ]_vars

\* The property has been read true on a workflow whose two steps hold
\* different statuses of the complete-set.
C38_Witness ==
    /\ last.op = "complete"
    /\ last.flag
    /\ Len(steps) = 2
    /\ StatusesOf(steps) = <<STATUS_COMPLETE, STATUS_REVIEWED>>

\* It has been read false on a workflow whose derived status is CONTINUE.
C38_WitnessContinue ==
    /\ last.op = "complete"
    /\ ~last.flag
    /\ last.out = STATUS_CONTINUE
    /\ StatusesOf(steps) = <<STATUS_APPROVED, STATUS_PENDING>>

\* It has been read false on a workflow without steps.
C38_WitnessNoSteps ==
    /\ last.op = "complete"
    /\ ~last.flag
    /\ Len(steps) = 0

C39_GatedRequestChangesNothing ==
    [][ ( /\ last'.op = "run_job"
          /\ ( last'.post \notin { "run-submit", "rerun-submit" } \/ ~last'.flag ) ) =>
            /\ steps' = steps
            /\ executed' = executed
            /\ last'.out \in { "redirect", "redirect_read_only" } ]_vars

\* A read-only run-submit on a job step behind which a step is COMPLETE has
\* been refused with nothing changed.
C39_ReadOnlyRequestRefused ==
    /\ last.op = "run_job"
    /\ last.post = "run-submit"
    /\ ~last.flag
    /\ last.out = "redirect_read_only"
    /\ last.step = 1
    /\ steps[2].status = STATUS_COMPLETE

\* No request to run_job has ended with a submission.
C39_NoRunSucceeds == last.op = "run_job" => last.out # "submitted"

====
